---- MODULE Spec2Model ----
(***************************************************************************)
(* A model of the race simulation engine of F1-Race-Predictor:             *)
(*   models/base_race_model.py      RaceSimulator                          *)
(*   models/advanced_race_model.py  EnhancedRaceSimulator                  *)
(* Times are integer milliseconds, ratings are integers, probabilities are *)
(* exact fractions over ChanceDenominator held as multi-limb naturals.     *)
(* Every random.* call of the code is an input drawn from a small set.     *)
(***************************************************************************)
EXTENDS Integers, Sequences, FiniteSets, TLC

\* ------------------------------------------------------------------ bounds
MaxDrivers == 2
MaxLaps == 2
MaxRaceLaps == 12
LongRaceLaps == 401
MaxField == 11

\* The running positions the traffic factor is computed for.
MaxPosition == 30

\* The calls of get_results on one simulator.
MaxCalls == 2
MaxRaces == 2

\* ------------------------------------------------------- program constants
PointsTop == 10
CapPercent == 15
BonusPoint == 1
TrafficFreePositions == 5

\* ------------------------------------------------------------ enumerations
NONE == "NONE"
MECHANICAL_FAILURE == "MECHANICAL_FAILURE"
DRIVER_ERROR == "DRIVER_ERROR"
COLLISION == "COLLISION"
PUNCTURE == "PUNCTURE"
WEATHER_RELATED == "WEATHER_RELATED"
PENALTY == "PENALTY"
PIT_ERROR == "PIT_ERROR"

RaceIncident ==
    {NONE, MECHANICAL_FAILURE, DRIVER_ERROR, COLLISION, PUNCTURE,
     WEATHER_RELATED, PENALTY, PIT_ERROR}

\* --------------------------------------------------------------- utilities
Max2(a, b) == IF a >= b THEN a ELSE b
Min2(a, b) == IF a <= b THEN a ELSE b
Range(s) == {s[i] : i \in 1..Len(s)}

\* list.sort / sorted(): a stable sort. Before(a, b) is "a's key is smaller
\* than b's"; elements with equal keys keep the order they had in s.
StableSort(s, Before(_, _)) ==
    LET n == Len(s)
        Rank(i) == 1 + Cardinality({j \in 1..n :
                        \/ Before(s[j], s[i])
                        \/ (~Before(s[i], s[j]) /\ ~Before(s[j], s[i]) /\ j < i)})
    IN  [p \in 1..n |-> s[CHOOSE i \in 1..n : Rank(i) = p]]

\* [x for x in s if Keep(x)]
RECURSIVE SelectList(_, _)
SelectList(s, keep) ==
    IF s = <<>> THEN <<>>
    ELSE (IF s[1] \in keep THEN <<s[1]>> ELSE <<>>) \o SelectList(Tail(s), keep)

\* list.index(x) + 1
IndexOf(s, x) == CHOOSE i \in 1..Len(s) : s[i] = x /\ \A j \in 1..(i - 1) : s[j] # x

\* ------------------------------------------- exact probability arithmetic
\* A probability is a natural numerator over 10^14, written base 10^4 with
\* the least significant limb first (the products below exceed 32 bits).
BigZero == <<0, 0, 0, 0>>
BigOne == <<1, 0, 0, 0>>

RECURSIVE BigMulFrom(_, _, _, _)
BigMulFrom(b, k, i, carry) ==
    IF i > Len(b) THEN <<>>
    ELSE LET v == b[i] * k + carry
         IN  <<v % 10000>> \o BigMulFrom(b, k, i + 1, v \div 10000)

BigMul(b, k) == BigMulFrom(b, k, 1, 0)

RECURSIVE BigLessFrom(_, _, _)
BigLessFrom(a, b, i) ==
    IF i = 0 THEN FALSE
    ELSE IF a[i] # b[i] THEN a[i] < b[i]
    ELSE BigLessFrom(a, b, i - 1)

BigLess(a, b) == BigLessFrom(a, b, Len(a))
BigLeq(a, b) == ~BigLess(b, a)
BigMin(a, b) == IF BigLess(b, a) THEN b ELSE a

\* percent / 100 as a numerator over 10^14: 10^12 per percent.
BigPercent(p) == <<0, 0, 0, p>>

\* ------------------------------------------------------------ input data
\* data/driver_data.py: Driver(name, team, ..., experience, skill_wet,
\* skill_dry, skill_overtaking, consistency, aggression)
Driver(name, team, experience, skill_wet, skill_dry, skill_overtaking,
       consistency, aggression) ==
    [name |-> name, team |-> team, experience |-> experience,
     skill_wet |-> skill_wet, skill_dry |-> skill_dry,
     skill_overtaking |-> skill_overtaking, consistency |-> consistency,
     aggression |-> aggression]

\* data/team_data.py: Team(name, ..., performance, reliability,
\* pit_efficiency, development_rate, aerodynamics, power)
Team(name, performance, reliability, pit_efficiency, development_rate,
     aerodynamics, power) ==
    [name |-> name, performance |-> performance, reliability |-> reliability,
     pit_efficiency |-> pit_efficiency, development_rate |-> development_rate,
     aerodynamics |-> aerodynamics, power |-> power]

\* The season's entries (a prefix is raced).
DRIVERS ==
    << Driver("Max Verstappen", "Red Bull Racing", 11, 94, 96, 93, 92, 85),
       Driver("Lando Norris", "McLaren", 7, 96, 97, 94, 95, 87),
       Driver("Gabriel Bortoleto", "Kick Sauber", 0, 75, 76, 74, 70, 72),
       Driver("Yuki Tsunoda", "Red Bull Racing", 5, 78, 80, 78, 76, 82) >>

TEAMS ==
    << Team("Red Bull Racing", 95, 92, 94, 93, 97, 94),
       Team("McLaren", 94, 90, 93, 92, 95, 93),
       Team("Kick Sauber", 80, 83, 84, 80, 82, 95) >>

\* Entries with attributes at the extremes 0 and 100; the first two are
\* equal in every attribute, so equal times happen.
ExtremeDrivers ==
    << Driver("Lance Stroll", "Aston Martin", 0, 0, 0, 0, 0, 100),
       Driver("Fernando Alonso", "Aston Martin", 0, 0, 0, 0, 0, 100),
       Driver("Carlos Sainz", "Williams", 24, 100, 100, 100, 100, 0),
       Driver("Alexander Albon", "Williams", 1, 50, 50, 50, 50, 50) >>

ExtremeTeams ==
    << Team("Aston Martin", 0, 0, 0, 0, 0, 0),
       Team("Williams", 100, 100, 100, 100, 100, 100) >>

\* A reckless rookie in a car of middling reliability, with his team mate
\* and a competitor of another team.
RookieDrivers ==
    << Driver("Oliver Bearman", "Haas", 1, 0, 0, 0, 0, 100),
       Driver("Kimi Antonelli", "Mercedes", 0, 90, 89, 85, 82, 83),
       Driver("Esteban Ocon", "Haas", 9, 86, 87, 85, 84, 82),
       Driver("George Russell", "Mercedes", 6, 92, 93, 90, 89, 83) >>

RookieTeams ==
    << Team("Haas", 50, 50, 50, 50, 50, 50),
       Team("Mercedes", 92, 94, 95, 91, 92, 93) >>

Rosters ==
    { [drivers |-> DRIVERS, teams |-> TEAMS],
      [drivers |-> ExtremeDrivers, teams |-> ExtremeTeams],
      [drivers |-> RookieDrivers, teams |-> RookieTeams] }

\* A team name no constructor carries.
UnmatchedTeam == "Cadillac"

\* data/track_data.py: the Losail entry, its lap count cut to the bound.
Tracks ==
    { [name |-> "Losail International Circuit", length_m |-> 5380,
       laps |-> n, tyre_wear |-> 9] : n \in 1..MaxLaps }

\* models/weather_model.py: WeatherCondition(condition, ..., rain_intensity)
Weathers ==
    { [condition |-> "dry", rain_intensity |-> 0],
      [condition |-> "wet", rain_intensity |-> 7],
      [condition |-> "mixed", rain_intensity |-> 2],
      [condition |-> "mixed", rain_intensity |-> 5] }

\* ------------------------------------------------------- derived ratings
\* Driver.get_overall_rating, times 100.
get_overall_rating(d) ==
    35 * d.skill_dry + 15 * d.skill_wet + 20 * d.skill_overtaking
        + 20 * d.consistency + 10 * d.experience

\* Team.get_car_rating, times 100.
get_car_rating(t) ==
    30 * t.performance + 20 * t.reliability + 25 * t.aerodynamics + 25 * t.power

\* is_wet with every mixed condition taken for wet.
IsWetWheneverMixed(w) == w.condition \in {"wet", "mixed"}

\* WeatherCondition.is_wet
is_wet(w) ==
    w.condition = "wet" \/ (w.condition = "mixed" /\ w.rain_intensity > 3)

\* base_time = 90 + (length_km - 5) * 5, in milliseconds.
base_time(trk) == 90000 + (trk.length_m - 5000) * 5

\* ------------------------------------------------------ qualifying model
\* One competitor's draws in RaceSimulator.simulate_qualifying:
\* random.uniform(-0.5, 0.5), random.uniform(-0.2, 0.3) in milliseconds and
\* the three lap factors in thousandths.
QualifyingDraws ==
    { [track_specialization |-> ts, random_factor |-> 0,
       q1 |-> 1005, q2 |-> 1000, q3 |-> q3]
        : ts \in {-500, 500}, q3 \in {990, 1005} }

\* The body of the loop of RaceSimulator.simulate_qualifying: best_time.
QualifyingBestTime(driver, team, trk, w, draw) ==
    LET driver_skill == get_overall_rating(driver)
        driver_factor == (10000 - driver_skill) \div 2
        car_rating == get_car_rating(team)
        car_factor == (3 * (10000 - car_rating)) \div 10
        weather_impact == IF is_wet(w) THEN 2000 - 20 * driver.skill_wet
                          ELSE 500 - 5 * driver.skill_dry
        lap_time == base_time(trk) + driver_factor + car_factor
                        + draw.track_specialization + weather_impact
                        + draw.random_factor
        q1_time == (lap_time * draw.q1) \div 1000
        q2_time == (lap_time * draw.q2) \div 1000
        q3_time == (lap_time * draw.q3) \div 1000
    IN  Min2(q1_time, Min2(q2_time, q3_time))

\* The grid built through a dict keyed by lap time: of the competitors with
\* one time only the first is kept.
GridFromTimesKeyedByTime(order, best) ==
    LET sorted == StableSort(order, LAMBDA a, b : best[a] < best[b])
    IN  SelectList(sorted, {d \in Range(order) :
            \A i \in 1..(IndexOf(order, d) - 1) : best[order[i]] # best[d]})

\* qualifying_performances.sort(key=lambda x: x[1]) and the grid built
\* from it; best is the function competitor -> best_time.
GridFromTimes(order, best) ==
    StableSort(order, LAMBDA a, b : best[a] < best[b])

\* ---------------------------------------------------------- race pace
\* RaceSimulator._calculate_race_pace, random_factor in milliseconds.
calculate_race_pace(driver, team, trk, w, random_factor) ==
    LET driver_skill == get_overall_rating(driver)
        driver_factor == (3 * (10000 - driver_skill)) \div 10
        car_rating == get_car_rating(team)
        car_factor == (10000 - car_rating) \div 4
        weather_impact == IF is_wet(w) THEN 1500 - 15 * driver.skill_wet
                          ELSE 500 - 5 * driver.skill_dry
    IN  base_time(trk) + driver_factor + car_factor + weather_impact
            + random_factor

\* traffic_factor = 0.1 * max(0, (position - 5) / 10), in units of 1/4000.
traffic_factor(position) == 40 * Max2(0, position - TrafficFreePositions)

\* final_lap_time = lap_time * (1 + tire_degradation + fuel_factor +
\* traffic_factor + random_variation); every term in units of 1/4000.
final_lap_time(lap_time, lap, tyre_wear, position, random_variation) ==
    LET tire_degradation == lap * tyre_wear
        fuel_factor == 0 - 8 * lap
    IN  (lap_time * (4000 + tire_degradation + fuel_factor
                        + traffic_factor(position) + random_variation))
            \div 4000

\* The draws of one competitor's lap: random.uniform(-0.2, 0.2) in
\* milliseconds and random.uniform(-0.3, 0.3) in units of 1/4000.
LapDraws ==
    { [random_factor |-> 0, random_variation |-> rv] : rv \in {-1200, 1200} }

\* A cap of 0.01.
IncidentCapOnePercent == BigPercent(1)

\* -------------------------------------------------------- incident model
\* The safety cap of _simulate_incidents: 0.15.
IncidentCap == BigPercent(CapPercent)

\* The chance before the cap with the first-lap factor on lap 1 only.
IncidentChanceFirstLapOnly(driver, team, w, lap, total_laps) ==
    LET driver_incident_factor == 2000 - 15 * driver.consistency
        car_incident_factor == 2000 - 17 * team.reliability
        weather_factor == IF w.condition = "wet" THEN 40
                          ELSE IF w.condition = "mixed" THEN 25 ELSE 10
        first_lap_factor == IF lap < 2 THEN 8 ELSE 1
        last_lap_factor == IF 10 * lap > 8 * total_laps THEN 2 ELSE 1
        exp_factor == IF driver.experience < 2 THEN 15 ELSE 10
        aggression_factor == 1000 + 8 * driver.aggression
    IN  BigMul(BigMul(BigMul(BigMul(BigMul(BigMul(BigMul(BigOne,
            driver_incident_factor), car_incident_factor), weather_factor),
            first_lap_factor), last_lap_factor), exp_factor),
            aggression_factor)

\* incident_chance before the cap: 0.001 times the seven factors, as a
\* numerator over 10^14.
IncidentChanceUncapped(driver, team, w, lap, total_laps) ==
    LET driver_incident_factor == 2000 - 15 * driver.consistency
        car_incident_factor == 2000 - 17 * team.reliability
        weather_factor == IF w.condition = "wet" THEN 40
                          ELSE IF w.condition = "mixed" THEN 25 ELSE 10
        first_lap_factor == IF lap < 3 THEN 8 ELSE 1
        last_lap_factor == IF 10 * lap > 8 * total_laps THEN 2 ELSE 1
        exp_factor == IF driver.experience < 2 THEN 15 ELSE 10
        aggression_factor == 1000 + 8 * driver.aggression
    IN  BigMul(BigMul(BigMul(BigMul(BigMul(BigMul(BigMul(BigOne,
            driver_incident_factor), car_incident_factor), weather_factor),
            first_lap_factor), last_lap_factor), exp_factor),
            aggression_factor)

\* The chance with the safety cap left out.
IncidentChanceNoCap(driver, team, w, lap, total_laps) ==
    IncidentChanceUncapped(driver, team, w, lap, total_laps)

\* incident_chance = min(incident_chance, 0.15)
IncidentChance(driver, team, w, lap, total_laps) ==
    BigMin(IncidentChanceUncapped(driver, team, w, lap, total_laps),
           IncidentCap)

\* The draws of one call of _simulate_incidents: random.random() against the
\* chance, the incident roll and the pit-or-penalty roll in thousandths,
\* and the index random.choice picks among the five descriptions.
IncidentDraws ==
    { [chance_roll |-> c, incident_roll |-> r, pit_roll |-> p, choice |-> k]
        : c \in {BigPercent(14), BigPercent(99)},
          r \in {50, 450, 650, 750, 850, 950},
          p \in {250, 750},
          k \in {1} }

\* The decision ladder of _simulate_incidents.
ClassifyIncident(team, w, incident_roll, pit_roll) ==
    IF incident_roll < 6 * (100 - team.reliability) THEN MECHANICAL_FAILURE
    ELSE IF incident_roll < 500 THEN DRIVER_ERROR
    ELSE IF incident_roll < 700 THEN COLLISION
    ELSE IF incident_roll < 800 THEN PUNCTURE
    ELSE IF incident_roll < 900 /\ is_wet(w) THEN WEATHER_RELATED
    ELSE IF pit_roll < 500 THEN PIT_ERROR
    ELSE PENALTY

\* RaceSimulator._simulate_incidents: <<incident, description>>. A
\* description is the chosen text of the incident's pool for this driver;
\* the empty string is <<>>.
simulate_incidents(driver, team, w, lap, total_laps, draw) ==
    IF BigLess(draw.chance_roll, IncidentChance(driver, team, w, lap, total_laps))
    THEN LET incident == ClassifyIncident(team, w, draw.incident_roll, draw.pit_roll)
         IN  <<incident, <<incident, draw.choice, driver.name>> >>
    ELSE <<NONE, <<>> >>

\* -------------------------------------------------------- result compiler
\* The table of the seasons 2003 to 2009: eight scoring positions.
PointsSystemTopEight == <<10, 8, 6, 5, 4, 3, 2, 1>>

\* points_system = [25, 18, 15, 12, 10, 8, 6, 4, 2, 1]
points_system == <<25, 18, 15, 12, 10, 8, 6, 4, 2, 1>>

\* The status with the penalty case left out.
ResolveStatusNoPenalty(st) ==
    IF st.active THEN "Finished" ELSE "DNF"

\* The status of a result from the competitor's final state.
ResolveStatus(st) ==
    IF st.active THEN "Finished"
    ELSE IF st.incident = PENALTY THEN "DSQ"
    ELSE "DNF"

\* The points with the bonus given to every finisher in the top ten.
PointsForBonusEveryFinisher(status, position, fastest) ==
    IF status = "Finished" /\ position <= Len(points_system)
    THEN points_system[position] + BonusPoint
    ELSE 0

\* The points with the bonus given whatever the status.
PointsForBonusAnyStatus(status, position, fastest) ==
    (IF status = "Finished" /\ position <= Len(points_system)
     THEN points_system[position] ELSE 0)
    + (IF fastest /\ position <= PointsTop THEN BonusPoint ELSE 0)

\* The points of a result (2023 system).
PointsFor(status, position, fastest) ==
    IF status = "Finished"
    THEN (IF position <= Len(points_system) THEN points_system[position] ELSE 0)
         + (IF fastest /\ position <= PointsTop THEN BonusPoint ELSE 0)
    ELSE 0

\* The final order with the inactive competitors left out.
FinalPositionsActiveOnly(grid, status, times) ==
    LET active_drivers == SelectList(grid, {d \in Range(grid) : status[d].active})
    IN  StableSort(active_drivers, LAMBDA a, b : times[a] < times[b])

\* The final order with the active competitors left in grid order.
FinalPositionsActiveUnsorted(grid, status, times) ==
    LET active_drivers == SelectList(grid, {d \in Range(grid) : status[d].active})
        inactive_drivers == SelectList(grid, {d \in Range(grid) : ~status[d].active})
    IN  active_drivers
        \o StableSort(inactive_drivers, LAMBDA a, b : times[a] > times[b])

\* The final order with reverse=True left out.
FinalPositionsInactiveAscending(grid, status, times) ==
    LET active_drivers == SelectList(grid, {d \in Range(grid) : status[d].active})
        inactive_drivers == SelectList(grid, {d \in Range(grid) : ~status[d].active})
    IN  StableSort(active_drivers, LAMBDA a, b : times[a] < times[b])
        \o StableSort(inactive_drivers, LAMBDA a, b : times[a] < times[b])

\* active_drivers sorted by race time, then inactive_drivers sorted by race
\* time, reverse=True.
FinalPositions(grid, status, times) ==
    LET active_drivers == SelectList(grid, {d \in Range(grid) : status[d].active})
        inactive_drivers == SelectList(grid, {d \in Range(grid) : ~status[d].active})
    IN  StableSort(active_drivers, LAMBDA a, b : times[a] < times[b])
        \o StableSort(inactive_drivers, LAMBDA a, b : times[a] > times[b])

\* The list of DriverRaceResult built at the end of simulate_race.
CompileResults(grid, teamOf, status, times, fastest) ==
    LET final_positions == FinalPositions(grid, status, times)
    IN  [position \in 1..Len(final_positions) |->
            LET driver == final_positions[position]
                st == ResolveStatus(status[driver])
                fl == (driver = fastest.driver)
            IN  [driver |-> driver,
                 team |-> teamOf[driver],
                 starting_position |-> IndexOf(grid, driver),
                 finishing_position |-> position,
                 time |-> times[driver],
                 status |-> st,
                 fastest_lap |-> fl,
                 incident |-> status[driver].incident,
                 incident_description |-> status[driver].description,
                 points |-> PointsFor(st, position, fl)]]

\* ------------------------------------------------------------------ state
VARIABLES
    track,            \* self.track
    weather,          \* self.weather
    drivers,          \* self.drivers: the competitors, known by their index
    teams,            \* self.teams
    enhancer,         \* self.real_data_enhancer (present = FALSE: None)
    driver_teams,     \* self.driver_teams: competitor -> index of its team
    grid_positions,   \* self.grid_positions
    race_results,     \* self.race_results
    race_simulated,   \* self.race_simulated
    pc,               \* where the caller and simulate_race stand
    lap,              \* the lap of the loop of simulate_race
    active_drivers,   \* the active_drivers list of the running lap
    k,                \* the index in active_drivers of the next competitor
    driver_status,    \* simulate_race's driver_status
    driver_times,     \* simulate_race's driver_times
    fastest_lap,      \* simulate_race's fastest_lap
    incident_chance,  \* the chance the last random.random() was compared to
    quali_returned,   \* what the last simulate_qualifying returned
    returned,         \* what simulate_race returned
    base_results,     \* what RaceSimulator.simulate_race returned, as it was
    result_index,     \* the index of the next result to adjust
    error,            \* the exception that ended the run, if any
    probe,            \* a function applied on its own: inputs and result
    app,              \* run_race_simulation of app.py: where it stands, its
                      \* race_results, and the attributes as they were
    replay,           \* the random source when the pipeline is run twice on
                      \* one sequence of draws: the draws and what followed
    tracker,          \* a ChampionshipTracker: driver_points, driver_teams,
                      \* races_completed, and the lists it was given
    lap_log,          \* when the laps are followed: per competitor, the
                      \* laps it has driven and their final_lap_time
    calls             \* the calls of get_results so far

inputs == <<track, weather, drivers, teams, enhancer, driver_teams, probe,
            app, tracker>>
locals == <<lap, active_drivers, k, driver_status, driver_times, fastest_lap>>
vars == <<track, weather, drivers, teams, enhancer, driver_teams,
          grid_positions, race_results, race_simulated, pc, lap,
          active_drivers, k, driver_status, driver_times, fastest_lap,
          incident_chance, quali_returned, returned, base_results,
          result_index, error, probe, app, replay, tracker, lap_log, calls>>

\* float('inf')
Infinity == 2147483647

Competitors == 1..Len(drivers)

\* RaceSimulator.__init__: the first team whose name is the driver's team.
MatchDriverTeams(ds, ts) ==
    [d \in {i \in 1..Len(ds) : \E j \in 1..Len(ts) : ds[i].team = ts[j].name} |->
        CHOOSE j \in 1..Len(ts) :
            /\ ds[d].team = ts[j].name
            /\ \A h \in 1..(j - 1) : ds[d].team # ts[h].name]

Reverse(s) == [i \in 1..Len(s) |-> s[Len(s) + 1 - i]]

\* The qualifying_results a caller may pass: none, every competitor, or
\* every competitor but the last.
SuppliedGrids(n) ==
    {<<>>, Reverse([i \in 1..n |-> i])}
        \cup (IF n >= 2 THEN {[i \in 1..(n - 1) |-> i]} ELSE {})

\* ------------------------------------------------- external statistics
\* RealDataEnhancer._get_driver_abbreviation: name_map, or the first three
\* letters in upper case.
get_driver_abbreviation(full_name) ==
    CASE full_name = "Max Verstappen" -> "VER"
      [] full_name = "Lando Norris" -> "NOR"
      [] full_name = "Oscar Piastri" -> "PIA"
      [] full_name = "Gabriel Bortoleto" -> "BOR"
      [] full_name = "Yuki Tsunoda" -> "TSU"
      [] full_name = "Lance Stroll" -> "STR"
      [] full_name = "Fernando Alonso" -> "ALO"
      [] full_name = "Kimi Antonelli" -> "ANT"
      [] full_name = "George Russell" -> "RUS"
      [] full_name = "Carlos Sainz" -> "CAR"
      [] full_name = "Alexander Albon" -> "ALE"
      [] full_name = "Oliver Bearman" -> "OLI"
      [] full_name = "Esteban Ocon" -> "EST"

\* RealDataEnhancer._clean_team_name
clean_team_name(team_name) ==
    IF team_name = "Red Bull Racing" THEN "Red Bull" ELSE team_name

\* a.lower() in b.lower(), for the team names at hand.
NameIn(a, b) ==
    \/ a = b
    \/ <<a, b>> \in {<<"Red Bull", "Red Bull Racing">>, <<"Haas", "Haas F1 Team">>}

\* The lookup both enhance_race_prediction and the race adjustments make:
\* the first key of real_team_data that contains, or is contained in, the
\* cleaned team name; 0 when there is none.
MatchingTeam(team_data, team_name) ==
    LET hits == {i \in 1..Len(team_data) :
                    \/ NameIn(team_name, team_data[i].name)
                    \/ NameIn(team_data[i].name, team_name)}
    IN  IF hits = {} THEN 0 ELSE CHOOSE i \in hits : \A h \in hits : i <= h

\* The index of abbrev in real_driver_data; 0 when it is no key.
DriverDataIndex(driver_data, abbrev) ==
    LET hits == {i \in 1..Len(driver_data) : driver_data[i].abbrev = abbrev}
    IN  IF hits = {} THEN 0 ELSE CHOOSE i \in hits : TRUE

\* real_data_enhancer = None. driver_data and team_data are what
\* get_enhanced_driver_data and get_enhanced_team_data return;
\* driver_data_raises and team_data_raises say that the provider's
\* calculation raises instead, on every call (nothing is cached then).
NoEnhancer ==
    [present |-> FALSE, driver_data |-> <<>>, team_data |-> <<>>,
     driver_data_raises |-> FALSE, team_data_raises |-> FALSE]

\* An enhancer whose provider has no data: both rating dicts are empty.
EmptyEnhancer ==
    [present |-> TRUE, driver_data |-> <<>>, team_data |-> <<>>,
     driver_data_raises |-> FALSE, team_data_raises |-> FALSE]

\* An enhancer with ratings for some competitors and some teams only.
PartialEnhancer ==
    [present |-> TRUE,
     driver_data |->
        << [abbrev |-> "STR", skill_overtaking |-> 90, consistency |-> 60],
           [abbrev |-> "ALO", skill_overtaking |-> 70, consistency |-> 90],
           [abbrev |-> "NOR", skill_overtaking |-> 95, consistency |-> 88],
           [abbrev |-> "OLI", skill_overtaking |-> 88, consistency |-> 64] >>,
     team_data |->
        << [name |-> "Aston Martin", reliability |-> 70],
           [name |-> "Red Bull Racing", reliability |-> 92],
           [name |-> "Haas F1 Team", reliability |-> 74] >>,
     driver_data_raises |-> FALSE, team_data_raises |-> FALSE]

WetWeather == [condition |-> "wet", rain_intensity |-> 7]

\* No function is applied on its own.
NoProbe == [fn |-> "none"]

\* The simulator is used without app.py.
NoApp == [pc |-> "none"]

\* The draws are free: nothing is recorded or replayed.
NoReplay == [run |-> 0]

\* ChampionshipTracker(): the dicts are kept in insertion order, as
\* sequences of entries; added is the list of the lists given to
\* add_race_results so far.
NewTracker ==
    [driver_points |-> <<>>, driver_teams |-> <<>>, races_completed |-> 0,
     added |-> <<>>]

\* What the constructor sets besides its arguments.
InitRest ==
    /\ driver_teams = MatchDriverTeams(drivers, teams)
    /\ race_results = <<>>
    /\ race_simulated = FALSE
    /\ pc = "idle"
    /\ lap = 0
    /\ active_drivers = <<>>
    /\ k = 0
    /\ driver_status = <<>>
    /\ driver_times = <<>>
    /\ fastest_lap = [driver |-> 0, time |-> Infinity]
    /\ incident_chance = BigZero
    /\ quali_returned = <<>>
    /\ returned = <<>>
    /\ base_results = <<>>
    /\ result_index = 0
    /\ error = "none"
    /\ lap_log = <<>>
    /\ calls = <<>>

\* RaceSimulator(track, drivers, teams, weather, qualifying_results): a
\* prefix of a roster raced in any weather on a grid to be qualified; or, in
\* the wet, a prefix whose last competitor may name a team no constructor
\* carries, on any grid.
Init ==
    /\ track \in Tracks
    /\ \E r \in Rosters, n \in 1..MaxDrivers, unmatched \in BOOLEAN :
        /\ drivers = [i \in 1..n |->
                        IF unmatched /\ i = n
                        THEN [r.drivers[i] EXCEPT !.team = UnmatchedTeam]
                        ELSE r.drivers[i]]
        /\ teams = r.teams
        /\ \/ /\ ~unmatched
              /\ weather \in Weathers
              /\ grid_positions = <<>>
           \/ /\ weather = WetWeather
              /\ grid_positions \in SuppliedGrids(n)
              /\ unmatched \/ grid_positions # <<>>
    /\ enhancer = NoEnhancer
    /\ probe = NoProbe
    /\ app = NoApp
    /\ replay = NoReplay
    /\ tracker = NewTracker
    /\ InitRest

\* create_enhanced_simulator(track, drivers, teams, weather,
\* real_data_enhancer): no qualifying_results are passed. The races are
\* one-lap races in the wet or on a damp track.
InitEnhanced ==
    /\ track \in {t \in Tracks : t.laps = 1}
    /\ \E r \in Rosters, n \in 1..MaxDrivers :
        /\ drivers = SubSeq(r.drivers, 1, n)
        /\ teams = r.teams
    /\ weather \in {WetWeather, [condition |-> "mixed", rain_intensity |-> 2]}
    /\ grid_positions = <<>>
    /\ enhancer \in {NoEnhancer, EmptyEnhancer, PartialEnhancer}
    /\ probe = NoProbe
    /\ app = NoApp
    /\ replay = NoReplay
    /\ tracker = NewTracker
    /\ InitRest

\* ------------------------------------------------------------ qualifying
\* RaceSimulator.simulate_qualifying with the draws qd (one per
\* competitor): the grid, or the KeyError of self.driver_teams[driver].
BaseQualifying(qd) ==
    IF \E d \in Competitors : d \notin DOMAIN driver_teams
    THEN [raised |-> TRUE, grid |-> <<>>, error |-> "KeyError"]
    ELSE LET best == [d \in Competitors |->
                        QualifyingBestTime(drivers[d], teams[driver_teams[d]],
                                           track, weather, qd[d])]
         IN  [raised |-> FALSE,
              grid |-> GridFromTimes([i \in Competitors |-> i], best),
              error |-> "none"]

\* One competitor's draws in EnhancedRaceSimulator.simulate_qualifying, in
\* thousandths: the weather factor (wet, mixed), the three lap factors and
\* the factor of the consistency adjustment (very consistent, less
\* consistent).
EnhancedQualifyingDraws ==
    { [weather_wet |-> 1020, weather_mixed |-> 1000, q1 |-> 1005, q2 |-> 1000,
       q3 |-> 990, very_consistent |-> 995, less_consistent |-> 985],
      [weather_wet |-> 1150, weather_mixed |-> 1080, q1 |-> 1005, q2 |-> 1000,
       q3 |-> 1005, very_consistent |-> 1002, less_consistent |-> 1015] }

\* The body of the loop of EnhancedRaceSimulator.simulate_qualifying.
EnhancedBestTime(driver, team, trk, w, real_driver_data, draw) ==
    LET driver_skill == get_overall_rating(driver)
        driver_factor == (10000 - driver_skill) \div 2
        team_factor == (3 * (10000 - get_car_rating(team))) \div 10
        weather_factor == IF w.condition = "wet" THEN draw.weather_wet
                          ELSE IF w.condition = "mixed" THEN draw.weather_mixed
                          ELSE 1000
        lap_time == ((base_time(trk) + driver_factor + team_factor)
                        * weather_factor) \div 1000
        q1_time == (lap_time * draw.q1) \div 1000
        q2_time == (lap_time * draw.q2) \div 1000
        q3_time == (lap_time * draw.q3) \div 1000
        best_time == Min2(q1_time, Min2(q2_time, q3_time))
        i == DriverDataIndex(real_driver_data, get_driver_abbreviation(driver.name))
    IN  IF i = 0 THEN best_time
        ELSE IF real_driver_data[i].consistency > 85
             THEN (best_time * draw.very_consistent) \div 1000
        ELSE IF real_driver_data[i].consistency < 65
             THEN (best_time * draw.less_consistent) \div 1000
        ELSE best_time

\* EnhancedRaceSimulator.simulate_qualifying: the base grid, re-sorted by
\* the times computed anew when there is an enhancer. The exception of
\* get_enhanced_driver_data (line 64) leaves with the base grid stored.
EnhancedQualifying(qd, ed) ==
    LET base == BaseQualifying(qd)
    IN  IF base.raised \/ ~enhancer.present THEN base
        ELSE IF enhancer.driver_data_raises
        THEN [raised |-> TRUE, grid |-> base.grid, error |-> "Exception"]
        ELSE LET best == [d \in Competitors |->
                            EnhancedBestTime(drivers[d], teams[driver_teams[d]],
                                track, weather, enhancer.driver_data, ed[d])]
             IN  [raised |-> FALSE, grid |-> GridFromTimes(base.grid, best),
                  error |-> "none"]

\* The outcomes of simulate_qualifying as the simulator at hand runs it.
QualifyingOutcomes ==
    IF enhancer.present
    THEN {EnhancedQualifying(qd, ed) : qd \in [Competitors -> QualifyingDraws],
                                       ed \in [Competitors -> EnhancedQualifyingDraws]}
    ELSE {BaseQualifying(qd) : qd \in [Competitors -> QualifyingDraws]}

\* The caller runs simulate_qualifying, whose outcome is q.
SimulateQualifyingWith(q) ==
    /\ pc = "idle"
    /\ ~race_simulated
    /\ quali_returned = <<>>
    /\ IF q.raised
       THEN /\ pc' = "failed"
            /\ error' = q.error
            /\ grid_positions' = IF q.error = "KeyError"
                                 THEN grid_positions ELSE q.grid
            /\ UNCHANGED quali_returned
       ELSE /\ grid_positions' = q.grid
            /\ quali_returned' = q.grid
            /\ UNCHANGED <<pc, error>>
    /\ UNCHANGED <<inputs, locals, race_results, race_simulated,
                   incident_chance, returned, base_results, result_index>>

\* The caller runs simulate_qualifying.
SimulateQualifying ==
    /\ pc = "idle"
    /\ ~race_simulated
    /\ quali_returned = <<>>
    /\ \E q \in QualifyingOutcomes : SimulateQualifyingWith(q)
    /\ UNCHANGED <<replay, lap_log, calls>>

\* ------------------------------------------------------------------ race
\* driver_status with the entries an earlier race left kept as they are.
InitialStatusLeftOver(grid) ==
    [d \in Range(grid) |->
        IF d \in DOMAIN driver_status THEN driver_status[d]
        ELSE [active |-> TRUE, incident |-> NONE, description |-> <<>>,
              current_position |-> IndexOf(grid, d)]]

\* driver_status and driver_times as simulate_race creates them.
InitialStatus(grid) ==
    [d \in Range(grid) |->
        [active |-> TRUE, incident |-> NONE, description |-> <<>>,
         current_position |-> IndexOf(grid, d)]]

\* The list with the filter on 'active' left out.
ActiveListUnfiltered(grid, status) == grid

\* [d for d in self.grid_positions if driver_status[d]['active']]
ActiveList(grid, status) ==
    SelectList(grid, {d \in Range(grid) : status[d].active})

\* The start of simulate_race: qualifying when there is no grid, then the
\* race variables, up to the first lap's active_drivers.
SimulateRaceBeginWith(q) ==
    /\ pc = "idle"
    /\ ~race_simulated
    /\  LET g == q.grid
        IN  IF q.raised
            THEN /\ pc' = "failed"
                 /\ error' = q.error
                 /\ grid_positions' = IF q.error = "KeyError"
                                      THEN grid_positions ELSE q.grid
                 /\ UNCHANGED <<quali_returned, locals>>
            ELSE /\ grid_positions' = g
                 /\ quali_returned' = IF grid_positions = <<>> THEN g
                                      ELSE quali_returned
                 /\ driver_status' = InitialStatus(g)
                 /\ driver_times' = [d \in Range(g) |-> 0]
                 /\ fastest_lap' = [driver |-> 0, time |-> Infinity]
                 /\ lap' = 1
                 /\ active_drivers' = ActiveList(g, InitialStatus(g))
                 /\ k' = 1
                 /\ pc' = IF track.laps >= 1 THEN "lap" ELSE "compile"
                 /\ error' = error
    /\ UNCHANGED <<inputs, race_results, race_simulated, incident_chance,
                   returned, base_results, result_index>>

SimulateRaceBegin ==
    /\ pc = "idle"
    /\ ~race_simulated
    /\ \E q \in IF grid_positions = <<>>
               THEN QualifyingOutcomes
               ELSE {[raised |-> FALSE, grid |-> grid_positions,
                      error |-> "none"]} :
            SimulateRaceBeginWith(q)
    /\ UNCHANGED <<replay, lap_log, calls>>

\* The positions with the sort by race time left out: the active
\* competitors in grid order.
UpdatePositionsInGridOrder(grid, status, times) ==
    [d \in DOMAIN status |->
        IF status[d].active
        THEN [status[d] EXCEPT !.current_position =
                                    IndexOf(ActiveList(grid, status), d)]
        ELSE status[d]]

\* current_position of the competitors still active, by race time.
UpdatePositions(grid, status, times) ==
    LET sorted_drivers == StableSort(ActiveList(grid, status),
                                     LAMBDA a, b : times[a] < times[b])
    IN  [d \in DOMAIN status |->
            IF status[d].active
            THEN [status[d] EXCEPT !.current_position = IndexOf(sorted_drivers, d)]
            ELSE status[d]]

\* The end of a lap with the loop left as soon as nobody is active.
EndOfLapStopsWhenEmpty(st, tm) ==
    /\ driver_status' = UpdatePositions(grid_positions, st, tm)
    /\ IF lap < track.laps /\ ActiveList(grid_positions, st) # <<>>
       THEN /\ lap' = lap + 1
            /\ active_drivers' = ActiveList(grid_positions, st)
            /\ k' = 1
            /\ pc' = "lap"
       ELSE /\ pc' = "compile"
            /\ UNCHANGED <<lap, active_drivers, k>>

\* The end of a lap, from the state st, tm the inner loop left: the
\* positions are updated, and the next lap starts with its active_drivers
\* or the loop ends.
EndOfLap(st, tm) ==
    /\ driver_status' = UpdatePositions(grid_positions, st, tm)
    /\ IF lap < track.laps
       THEN /\ lap' = lap + 1
            /\ active_drivers' = ActiveList(grid_positions, st)
            /\ k' = 1
            /\ pc' = "lap"
       ELSE /\ pc' = "compile"
            /\ UNCHANGED <<lap, active_drivers, k>>

\* The pass of the inner loop with the incident check made before the lap
\* time is compared and added: the lap a competitor retires on counts for
\* nothing.
LapDriverIncidentFirst(ld, res) ==
    /\ pc = "lap"
    /\ k <= Len(active_drivers)
    /\ LET driver == active_drivers[k]
       IN  IF driver \notin DOMAIN driver_teams
           THEN /\ pc' = "failed"
                /\ error' = "KeyError"
                /\ UNCHANGED <<locals, incident_chance>>
           ELSE LET team == teams[driver_teams[driver]]
                    lap_time == calculate_race_pace(drivers[driver], team,
                                    track, weather, ld.random_factor)
                    position == driver_status[driver].current_position
                    final == final_lap_time(lap_time, lap, track.tyre_wear,
                                    position, ld.random_variation)
                    times == IF res[1] # NONE THEN driver_times
                             ELSE [driver_times EXCEPT ![driver] = @ + final]
                    status == IF res[1] # NONE
                              THEN [driver_status EXCEPT
                                      ![driver].active = FALSE,
                                      ![driver].incident = res[1],
                                      ![driver].description = res[2]]
                              ELSE driver_status
                IN  /\ fastest_lap' = IF res[1] = NONE /\ final < fastest_lap.time
                                      THEN [driver |-> driver, time |-> final]
                                      ELSE fastest_lap
                    /\ driver_times' = times
                    /\ incident_chance' = IncidentChance(drivers[driver], team,
                                              weather, lap, track.laps)
                    /\ IF k < Len(active_drivers)
                       THEN /\ driver_status' = status
                            /\ k' = k + 1
                            /\ UNCHANGED <<pc, lap, active_drivers>>
                       ELSE EndOfLap(status, times)
                    /\ error' = error
    /\ UNCHANGED <<inputs, grid_positions, race_results, race_simulated,
                   quali_returned, returned, base_results, result_index>>

\* One pass of the inner loop of simulate_race: the lap of the competitor
\* active_drivers[k]; after the last competitor of the lap, the end of the
\* lap. ld are the draws of the lap time, res is what _simulate_incidents
\* returns.
LapDriverWith(ld, res) ==
    /\ pc = "lap"
    /\ k <= Len(active_drivers)
    /\ LET driver == active_drivers[k]
       IN  IF driver \notin DOMAIN driver_teams
           THEN /\ pc' = "failed"
                /\ error' = "KeyError"
                /\ UNCHANGED <<locals, incident_chance>>
           ELSE LET team == teams[driver_teams[driver]]
                    lap_time == calculate_race_pace(drivers[driver], team,
                                    track, weather, ld.random_factor)
                    position == driver_status[driver].current_position
                    final == final_lap_time(lap_time, lap, track.tyre_wear,
                                    position, ld.random_variation)
                    times == [driver_times EXCEPT ![driver] = @ + final]
                    status == IF res[1] # NONE
                              THEN [driver_status EXCEPT
                                      ![driver].active = FALSE,
                                      ![driver].incident = res[1],
                                      ![driver].description = res[2]]
                              ELSE driver_status
                IN  /\ fastest_lap' = IF final < fastest_lap.time
                                      THEN [driver |-> driver, time |-> final]
                                      ELSE fastest_lap
                    /\ driver_times' = times
                    /\ incident_chance' = IncidentChance(drivers[driver], team,
                                              weather, lap, track.laps)
                    /\ IF k < Len(active_drivers)
                       THEN /\ driver_status' = status
                            /\ k' = k + 1
                            /\ UNCHANGED <<pc, lap, active_drivers>>
                       ELSE EndOfLap(status, times)
                    /\ error' = error
    /\ UNCHANGED <<inputs, grid_positions, race_results, race_simulated,
                   quali_returned, returned, base_results, result_index>>

\* _simulate_incidents for the competitor whose lap is next, on the draws
\* id (no incident for a competitor the loop fails on).
IncidentOutcome(id) ==
    IF /\ pc = "lap"
       /\ k <= Len(active_drivers)
       /\ active_drivers[k] \in DOMAIN driver_teams
    THEN simulate_incidents(drivers[active_drivers[k]],
                            teams[driver_teams[active_drivers[k]]], weather,
                            lap, track.laps, id)
    ELSE <<NONE, <<>> >>

LapDriver ==
    /\ pc = "lap"
    /\ k <= Len(active_drivers)
    /\ \E ld \in LapDraws, res \in {IncidentOutcome(id) : id \in IncidentDraws} :
            LapDriverWith(ld, res)
    /\ UNCHANGED <<replay, lap_log, calls>>

\* A lap no competitor is active in: the loop goes on to the next lap.
LapEmpty ==
    /\ pc = "lap"
    /\ active_drivers = <<>>
    /\ EndOfLap(driver_status, driver_times)
    /\ UNCHANGED <<inputs, grid_positions, race_results, race_simulated,
                   driver_times, fastest_lap, incident_chance,
                   quali_returned, returned, base_results,
                   result_index, error, replay, lap_log,
                   calls>>

\* The rest of RaceSimulator.simulate_race: the results are compiled,
\* stored and returned; EnhancedRaceSimulator.simulate_race then adjusts
\* them when it has an enhancer, and _apply_real_data_race_adjustments
\* begins by asking it for both rating dicts (lines 137-138).
CompileRaceStep ==
    /\ pc = "compile"
    /\ IF \E d \in Range(grid_positions) : d \notin DOMAIN driver_teams
       THEN /\ pc' = "failed"
            /\ error' = "KeyError"
            /\ UNCHANGED <<race_results, race_simulated, returned,
                           base_results, result_index>>
       ELSE LET results == CompileResults(grid_positions, driver_teams,
                                driver_status, driver_times, fastest_lap)
            IN  /\ race_results' = results
                /\ race_simulated' = TRUE
                /\ base_results' = results
                /\ IF ~enhancer.present
                   THEN /\ pc' = "done"
                        /\ returned' = results
                        /\ UNCHANGED <<result_index, error>>
                   ELSE IF \/ enhancer.driver_data_raises
                           \/ enhancer.team_data_raises
                   THEN /\ pc' = "failed"
                        /\ error' = "Exception"
                        /\ UNCHANGED <<returned, result_index>>
                   ELSE /\ pc' = "adjust"
                        /\ result_index' = 1
                        /\ UNCHANGED <<returned, error>>
    /\ UNCHANGED <<inputs, locals, grid_positions, incident_chance,
                   quali_returned>>

CompileRace == CompileRaceStep /\ UNCHANGED <<replay, lap_log, calls>>

\* ------------------------------------------------- race adjustments
\* The draws of one pass of the loop of _apply_real_data_race_adjustments:
\* the four random.random() in thousandths and the two random.choice.
AdjustDraws ==
    { [overtake_roll |-> o, position_boost |-> b, consistency_roll |-> c,
       incident_choice |-> i, reliability_roll |-> r, mechanical_roll |-> m]
        : o \in {100, 900}, b \in {0, 1}, c \in {100, 900},
          i \in {DRIVER_ERROR, PIT_ERROR}, r \in {50, 900}, m \in {100, 900} }

\* One pass of the loop of _apply_real_data_race_adjustments on result,
\* one of n results.
AdjustResult(result, n, draw) ==
    LET i == DriverDataIndex(enhancer.driver_data,
                get_driver_abbreviation(drivers[result.driver].name))
        t == MatchingTeam(enhancer.team_data,
                clean_team_name(teams[result.team].name))
        position_boost == IF draw.overtake_roll < 300 THEN draw.position_boost
                          ELSE 0
        r1 == IF /\ i # 0
                 /\ enhancer.driver_data[i].skill_overtaking > 85
                 /\ result.starting_position > result.finishing_position
              THEN [result EXCEPT !.finishing_position =
                                    Max2(1, @ - position_boost)]
              ELSE result
        r2 == IF /\ i # 0
                 /\ enhancer.driver_data[i].consistency < 70
                 /\ draw.consistency_roll < 150
                 /\ r1.incident = NONE
              THEN [r1 EXCEPT !.incident = draw.incident_choice,
                              !.incident_description =
                                <<"Real data suggests higher incident probability">>]
              ELSE r1
    IN  IF /\ t # 0
           /\ enhancer.team_data[t].reliability < 75
           /\ draw.reliability_roll < 100
           /\ r2.incident = NONE
           /\ draw.mechanical_roll < 300
        THEN [r2 EXCEPT !.incident = MECHANICAL_FAILURE,
                        !.incident_description =
                            <<"Real data suggests reliability concerns">>,
                        !.status = "DNF",
                        !.finishing_position = n]
        ELSE r2

\* finished_results and dnf_results of the re-sort, before the positions
\* are assigned again.
FinishedResults(results) ==
    StableSort(SelectList(results, {r \in Range(results) : r.status = "Finished"}),
               LAMBDA a, b : \/ a.finishing_position < b.finishing_position
                             \/ /\ a.finishing_position = b.finishing_position
                                /\ a.time < b.time)

DnfResults(results) ==
    SelectList(results, {r \in Range(results) : r.status = "DNF"})

\* The position the re-sort gives the result r of results.
Reassigned(results, r) ==
    LET finished_results == FinishedResults(results)
        dnf_results == DnfResults(results)
    IN  IF r.status = "Finished"
        THEN [r EXCEPT !.finishing_position = IndexOf(finished_results, r)]
        ELSE IF r.status = "DNF"
        THEN [r EXCEPT !.finishing_position =
                            Len(finished_results) + IndexOf(dnf_results, r)]
        ELSE r

\* all_results = finished_results + dnf_results, positions assigned.
AllResults(results) ==
    LET all == FinishedResults(results) \o DnfResults(results)
    IN  [p \in 1..Len(all) |-> Reassigned(results, all[p])]

\* One pass of the loop of _apply_real_data_race_adjustments; after the
\* last result, the re-sort and the return of all_results. The results are
\* the objects of self.race_results, changed in place. adjusted is the
\* result as the pass leaves it.
AdjustStepWith(adjusted) ==
    /\ pc = "adjust"
    /\ result_index <= Len(race_results)
    /\  LET results == [race_results EXCEPT ![result_index] = adjusted]
        IN  IF result_index < Len(race_results)
            THEN /\ race_results' = results
                 /\ result_index' = result_index + 1
                 /\ UNCHANGED <<pc, returned>>
            ELSE /\ race_results' = [p \in 1..Len(results) |->
                                        Reassigned(results, results[p])]
                 /\ returned' = AllResults(results)
                 /\ pc' = "done"
                 /\ UNCHANGED result_index
    /\ UNCHANGED <<inputs, locals, grid_positions, race_simulated,
                   incident_chance, quali_returned, base_results, error>>

\* The pass on the next result with the draws ad.
AdjustOutcome(ad) ==
    AdjustResult(race_results[result_index], Len(race_results), ad)

AdjustStep ==
    /\ pc = "adjust"
    /\ result_index <= Len(race_results)
    /\ \E adjusted \in {AdjustOutcome(ad) : ad \in AdjustDraws} :
            AdjustStepWith(adjusted)
    /\ UNCHANGED <<replay, lap_log, calls>>

Next ==
    \/ SimulateQualifying
    \/ SimulateRaceBegin
    \/ LapDriver
    \/ LapEmpty
    \/ CompileRace

Spec == Init /\ [][Next]_vars

\* The enhanced simulator: the same calls, and the adjustments after the
\* race.
NextEnhanced ==
    \/ SimulateQualifying
    \/ SimulateRaceBegin
    \/ LapDriver
    \/ CompileRace
    \/ AdjustStep

SpecEnhanced == InitEnhanced /\ [][NextEnhanced]_vars

\* ------------------------------------------- functions applied on their own
\* _simulate_incidents for two entries that differ in consistency and
\* reliability only: the competitor's aggression and experience, the
\* weather, the lap and the race's lap count.
IncidentChanceProbes ==
    { [fn |-> "_simulate_incidents", done |-> FALSE, aggression |-> a,
       experience |-> e, weather |-> w, lap |-> l, total_laps |-> n,
       worst |-> BigZero, best |-> BigZero]
        : a \in {1, 50, 100}, e \in {0, 1, 2, 24}, w \in Weathers,
          n \in 1..MaxRaceLaps, l \in 1..MaxRaceLaps }

\* The lap time of the inner loop of simulate_race for one competitor, on
\* a long race at Losail with any tyre-wear rating.
LapTimeProbes ==
    { [fn |-> "final_lap_time", done |-> FALSE, entry |-> i,
       track |-> [name |-> "Losail International Circuit", length_m |-> 5380,
                  laps |-> LongRaceLaps, tyre_wear |-> tw],
       weather |-> [condition |-> "dry", rain_intensity |-> 0],
       lap |-> l, position |-> p, random_factor |-> 0 - 200,
       random_variation |-> rv, lap_time |-> 0, final_lap_time |-> 0]
        : i \in {1, 2}, tw \in 1..10, l \in 1..LongRaceLaps, p \in {1, 20},
          rv \in {-1200, 1200} }

\* The inputs of the composition of incident_chance (lines 198-234):
\* ratings, experience, weather, and a lap of a race.
IncidentFactorProbes ==
    { [fn |-> "incident_factors", done |-> FALSE, consistency |-> c,
       reliability |-> r, aggression |-> a, experience |-> e, weather |-> w,
       lap |-> l, total_laps |-> n, chance |-> BigZero, mid_race |-> BigZero,
       veteran |-> BigZero, wet |-> BigZero, mixed |-> BigZero,
       dry |-> BigZero, more_consistent |-> BigZero,
       more_reliable |-> BigZero, more_aggressive |-> BigZero]
        : c \in {0, 50, 99}, r \in {0, 50, 99}, a \in {0, 50, 99},
          e \in {0, 1, 2, 3},
          w \in {Wx \in Weathers : Wx.rain_intensity # 5},
          n \in 1..MaxRaceLaps, l \in 1..MaxRaceLaps }

\* The running positions of a lap of simulate_race (line 366).
TrafficProbes ==
    { [fn |-> "traffic_factor", done |-> FALSE, position |-> p,
       traffic_factor |-> 0, ahead |-> 0] : p \in 1..MaxPosition }

\* The simulator is left aside; one function is applied to one input.
InitFunctions ==
    /\ track \in {t \in Tracks : t.laps = 1}
    /\ weather = WetWeather
    /\ drivers = <<>>
    /\ teams = <<>>
    /\ grid_positions = <<>>
    /\ enhancer = NoEnhancer
    /\ probe \in {q \in IncidentChanceProbes : q.lap <= q.total_laps}
                    \cup LapTimeProbes \cup TrafficProbes
                    \cup {q \in IncidentFactorProbes : q.lap <= q.total_laps}
    /\ app = NoApp
    /\ replay = NoReplay
    /\ tracker = NewTracker
    /\ InitRest

\* incident_chance of _simulate_incidents (lines 198-237) for consistency 0
\* with reliability 0, and for consistency 100 with reliability 100.
ProbeIncidentChance ==
    /\ probe.fn = "_simulate_incidents"
    /\ ~probe.done
    /\ LET chance(c) ==
              IncidentChance(
                  Driver("Lance Stroll", "Aston Martin", probe.experience,
                         50, 50, 50, c, probe.aggression),
                  Team("Aston Martin", 50, c, 50, 50, 50, 50),
                  probe.weather, probe.lap, probe.total_laps)
       IN  probe' = [probe EXCEPT !.done = TRUE, !.worst = chance(0),
                                  !.best = chance(100)]
    /\ UNCHANGED <<track, weather, drivers, teams, enhancer, driver_teams,
                   grid_positions, race_results, race_simulated, pc, locals,
                   incident_chance, quali_returned, returned, base_results,
                   result_index, error, app, replay, tracker, lap_log, calls>>

\* lap_time and final_lap_time of simulate_race (lines 357-373) for the
\* champion in his car or for the weakest entry of the extreme roster.
ProbeLapTime ==
    /\ probe.fn = "final_lap_time"
    /\ ~probe.done
    /\ LET driver == IF probe.entry = 1 THEN DRIVERS[1] ELSE ExtremeDrivers[1]
           team == IF probe.entry = 1 THEN TEAMS[1] ELSE ExtremeTeams[1]
           lap_time == calculate_race_pace(driver, team, probe.track,
                                           probe.weather, probe.random_factor)
       IN  probe' = [probe EXCEPT
                        !.done = TRUE,
                        !.lap_time = lap_time,
                        !.final_lap_time =
                            final_lap_time(lap_time, probe.lap,
                                probe.track.tyre_wear, probe.position,
                                probe.random_variation)]
    /\ UNCHANGED <<track, weather, drivers, teams, enhancer, driver_teams,
                   grid_positions, race_results, race_simulated, pc, locals,
                   incident_chance, quali_returned, returned, base_results,
                   result_index, error, app, replay, tracker, lap_log, calls>>

\* traffic_factor of simulate_race (lines 366-367) at a position, and one
\* place ahead of it.
ProbeTraffic ==
    /\ probe.fn = "traffic_factor"
    /\ ~probe.done
    /\ probe' = [probe EXCEPT
                    !.done = TRUE,
                    !.traffic_factor = traffic_factor(probe.position),
                    !.ahead = IF probe.position > 1
                              THEN traffic_factor(probe.position - 1) ELSE 0]
    /\ UNCHANGED <<track, weather, drivers, teams, enhancer, driver_teams,
                   grid_positions, race_results, race_simulated, pc, locals,
                   incident_chance, quali_returned, returned, base_results,
                   result_index, error, app, replay, tracker, lap_log, calls>>

\* incident_chance before the cap (lines 198-234) on the inputs given,
\* and with one of them changed: on lap 3 of a long race, with two years
\* of experience, in each weather, and with one rating a point higher.
ProbeIncidentFactors ==
    /\ probe.fn = "incident_factors"
    /\ ~probe.done
    /\ LET chance(c, r, a, e, w, l, n) ==
              IncidentChanceUncapped(
                  Driver("Lance Stroll", "Aston Martin", e, 50, 50, 50, c, a),
                  Team("Aston Martin", 50, r, 50, 50, 50, 50), w, l, n)
           c == probe.consistency
           r == probe.reliability
           a == probe.aggression
           e == probe.experience
           w == probe.weather
           l == probe.lap
           n == probe.total_laps
           in(condition) == [condition |-> condition, rain_intensity |-> 0]
       IN  probe' = [probe EXCEPT
                !.done = TRUE,
                !.chance = chance(c, r, a, e, w, l, n),
                !.mid_race = chance(c, r, a, e, w, 3, LongRaceLaps),
                !.veteran = chance(c, r, a, 2, w, l, n),
                !.wet = chance(c, r, a, e, in("wet"), l, n),
                !.mixed = chance(c, r, a, e, in("mixed"), l, n),
                !.dry = chance(c, r, a, e, in("dry"), l, n),
                !.more_consistent = chance(c + 1, r, a, e, w, l, n),
                !.more_reliable = chance(c, r + 1, a, e, w, l, n),
                !.more_aggressive = chance(c, r, a + 1, e, w, l, n)]
    /\ UNCHANGED <<track, weather, drivers, teams, enhancer, driver_teams,
                   grid_positions, race_results, race_simulated, pc, locals,
                   incident_chance, quali_returned, returned, base_results,
                   result_index, error, app, replay, tracker, lap_log, calls>>

NextFunctions ==
    \/ ProbeIncidentChance
    \/ ProbeLapTime
    \/ ProbeTraffic
    \/ ProbeIncidentFactors

SpecFunctions == InitFunctions /\ [][NextFunctions]_vars

\* --------------------------------------------- the compiler on a full field
\* A field of n entries: the season's entries over again, each under a
\* name of its own.
FieldDrivers(n) ==
    [i \in 1..n |->
        [DRIVERS[((i - 1) % Len(DRIVERS)) + 1] EXCEPT
            !.name = "Driver " \o ToString(i)]]

\* The lap times of a one-lap race of n competitors: rising along the
\* grid, falling along the grid, or equal in pairs.
FieldLapTimes(n) ==
    { [d \in 1..n |-> 70000 + 100 * d],
      [d \in 1..n |-> 90000 - 100 * d],
      [d \in 1..n |-> 70000 + 100 * (d \div 2)] }

\* fastest_lap after a one-lap race in the order of grid: the first
\* competitor taken up whose lap time is below all before it.
FastestOfLap(grid, times) ==
    LET best == CHOOSE i \in 1..Len(grid) :
                    /\ \A h \in 1..Len(grid) : times[grid[i]] <= times[grid[h]]
                    /\ \A h \in 1..(i - 1) : times[grid[h]] > times[grid[i]]
    IN  [driver |-> grid[best], time |-> times[grid[best]]]

\* simulate_race when the lap loop of a one-lap race has ended for a field
\* of ten or more: every competitor has run its lap, some of the first
\* two and the last on the grid have retired on it.
InitCompile ==
    /\ track \in {t \in Tracks : t.laps = 1}
    /\ weather = WetWeather
    /\ enhancer = NoEnhancer
    /\ probe = NoProbe
    /\ app = NoApp
    /\ replay = NoReplay
    /\ tracker = NewTracker
    /\ teams = TEAMS
    /\ \E n \in PointsTop..MaxField :
        /\ drivers = FieldDrivers(n)
        /\ grid_positions \in {[i \in 1..n |-> i], Reverse([i \in 1..n |-> i])}
        /\ driver_times \in FieldLapTimes(n)
        /\ \E retired \in SUBSET {1, 2, n}, incident \in {COLLISION, PENALTY} :
             driver_status =
                UpdatePositions(grid_positions,
                    [d \in 1..n |->
                        IF d \in retired
                        THEN [active |-> FALSE, incident |-> incident,
                              description |-> <<incident, 1, drivers[d].name>>,
                              current_position |-> IndexOf(grid_positions, d)]
                        ELSE [active |-> TRUE, incident |-> NONE,
                              description |-> <<>>,
                              current_position |-> IndexOf(grid_positions, d)]],
                    driver_times)
    /\ driver_teams = MatchDriverTeams(drivers, teams)
    /\ fastest_lap = FastestOfLap(grid_positions, driver_times)
    /\ lap = 1
    /\ active_drivers = grid_positions
    /\ k = Len(grid_positions)
    /\ pc = "compile"
    /\ quali_returned = grid_positions
    /\ race_results = <<>>
    /\ race_simulated = FALSE
    /\ incident_chance = BigZero
    /\ returned = <<>>
    /\ base_results = <<>>
    /\ result_index = 0
    /\ error = "none"
    /\ lap_log = <<>>
    /\ calls = <<>>

NextCompile == CompileRace

SpecCompile == InitCompile /\ [][NextCompile]_vars

\* ------------------------------------------------------------- app.py
\* The entries of a session of app.py: the season's entries with the three
\* competitors the Qatar reordering names, in two orders (a prefix is raced).
AppRosters ==
    { [drivers |-> DRIVERS, teams |-> TEAMS],
      [drivers |->
        << Driver("Oscar Piastri", "McLaren", 3, 92, 93, 90, 91, 85),
           DRIVERS[4], DRIVERS[2], DRIVERS[1] >>,
       teams |-> TEAMS] }

\* data/track_data.py: the Losail and Monaco entries, one lap long.
AppTracks ==
    { [name |-> "Losail International Circuit", length_m |-> 5380,
       laps |-> 1, tyre_wear |-> 9],
      [name |-> "Circuit de Monaco", length_m |-> 3337,
       laps |-> 1, tyre_wear |-> 3] }

DryWeather == [condition |-> "dry", rain_intensity |-> 0]

\* The global real_data_enhancer with ratings for some competitors and one
\* constructor: records as calculate_realistic_driver_ratings and
\* calculate_realistic_team_ratings build them.
StatisticsEnhancer ==
    [present |-> TRUE,
     driver_data |->
        << [abbrev |-> "VER", skill_dry |-> 90, skill_wet |-> 88,
            skill_overtaking |-> 86, consistency |-> 80, aggression |-> 72],
           [abbrev |-> "PIA", skill_dry |-> 84, skill_wet |-> 80,
            skill_overtaking |-> 90, consistency |-> 68, aggression |-> 75],
           [abbrev |-> "TSU", skill_dry |-> 60, skill_wet |-> 100,
            skill_overtaking |-> 30, consistency |-> 90, aggression |-> 34] >>,
     team_data |->
        << [name |-> "McLaren", performance |-> 96, reliability |-> 70,
            aerodynamics |-> 88, power |-> 85, pit_efficiency |-> 70] >>,
     driver_data_raises |-> FALSE, team_data_raises |-> FALSE]

\* The enhancer of a session: with ratings, with empty rating dicts, or
\* with a provider whose calculation of the driver or of the team ratings
\* raises.
AppEnhancers ==
    { StatisticsEnhancer,
      EmptyEnhancer,
      [EmptyEnhancer EXCEPT !.driver_data_raises = TRUE],
      [EmptyEnhancer EXCEPT !.team_data_raises = TRUE] }

\* round(real * 0.7 + original * 0.3), for arguments whose weighted sum is
\* no tie (7 * real + 3 * original is not 5 modulo 10); the ratings above
\* meet no tie, however often they are blended in.
Blend(real, original) == (7 * real + 3 * original + 5) \div 10

\* The body of the first loop of enhance_race_prediction with every
\* competitor blended, the ones without ratings against 75.
EnhancedDriverDefaultRatings(driver, real_driver_data) ==
    LET i == DriverDataIndex(real_driver_data,
                             get_driver_abbreviation(driver.name))
        real_data == IF i # 0 THEN real_driver_data[i]
                     ELSE [skill_dry |-> 75, skill_wet |-> 75,
                           skill_overtaking |-> 75, consistency |-> 75,
                           aggression |-> 75]
    IN  [driver EXCEPT !.skill_dry = Blend(real_data.skill_dry, @),
                       !.skill_wet = Blend(real_data.skill_wet, @),
                       !.skill_overtaking = Blend(real_data.skill_overtaking, @),
                       !.consistency = Blend(real_data.consistency, @),
                       !.aggression = Blend(real_data.aggression, @)]

\* The body of the first loop of enhance_race_prediction: the driver
\* object itself, its attributes set when its abbreviation is a key.
EnhancedDriver(driver, real_driver_data) ==
    LET i == DriverDataIndex(real_driver_data,
                             get_driver_abbreviation(driver.name))
    IN  IF i = 0 THEN driver
        ELSE LET real_data == real_driver_data[i]
             IN  [driver EXCEPT
                    !.skill_dry = Blend(real_data.skill_dry, @),
                    !.skill_wet = Blend(real_data.skill_wet, @),
                    !.skill_overtaking = Blend(real_data.skill_overtaking, @),
                    !.consistency = Blend(real_data.consistency, @),
                    !.aggression = Blend(real_data.aggression, @)]

\* The body of the second loop of enhance_race_prediction.
EnhancedTeam(team, real_team_data) ==
    LET t == MatchingTeam(real_team_data, clean_team_name(team.name))
    IN  IF t = 0 THEN team
        ELSE LET real_data == real_team_data[t]
             IN  [team EXCEPT
                    !.performance = Blend(real_data.performance, @),
                    !.reliability = Blend(real_data.reliability, @),
                    !.aerodynamics = Blend(real_data.aerodynamics, @),
                    !.power = Blend(real_data.power, @),
                    !.pit_efficiency = Blend(real_data.pit_efficiency, @)]

\* The start of a session: get_all_drivers() and get_all_teams() hold the
\* entries as the data modules define them, no simulator exists, and the
\* user selects the same Grand Prix and weather for every race.
InitApp ==
    /\ track \in AppTracks
    /\ weather \in {WetWeather, DryWeather}
    /\ \E r \in AppRosters, n \in 1..MaxDrivers :
        /\ drivers = SubSeq(r.drivers, 1, n)
        /\ teams = r.teams
    /\ enhancer \in AppEnhancers
    /\ grid_positions = <<>>
    /\ probe = NoProbe
    /\ app = [pc |-> "menu", races |-> 0,
              original |-> [drivers |-> drivers, teams |-> teams],
              before |-> [drivers |-> drivers, teams |-> teams],
              enrichment_failed |-> FALSE,
              race_results |-> <<>>]
    /\ replay = NoReplay
    /\ tracker = NewTracker
    /\ driver_teams = <<>>
    /\ race_results = <<>>
    /\ race_simulated = FALSE
    /\ pc = "none"
    /\ lap = 0
    /\ active_drivers = <<>>
    /\ k = 0
    /\ driver_status = <<>>
    /\ driver_times = <<>>
    /\ fastest_lap = [driver |-> 0, time |-> Infinity]
    /\ incident_chance = BigZero
    /\ quali_returned = <<>>
    /\ returned = <<>>
    /\ base_results = <<>>
    /\ result_index = 0
    /\ error = "none"
    /\ lap_log = <<>>
    /\ calls = <<>>

\* run_race_simulation, lines 83-100: the enrichment changes the objects
\* of get_all_drivers() and get_all_teams() in place, or its exception is
\* absorbed (both rating dicts are asked for before the first object is
\* touched); then the simulator is created on whatever the objects hold.
RunRaceSimulationBegin ==
    /\ app.pc = "menu"
    /\ app.races < MaxRaces
    /\ LET failed == enhancer.driver_data_raises \/ enhancer.team_data_raises
           enhanced_drivers ==
                IF failed THEN drivers
                ELSE [i \in 1..Len(drivers) |->
                        EnhancedDriver(drivers[i], enhancer.driver_data)]
           enhanced_teams ==
                IF failed THEN teams
                ELSE [i \in 1..Len(teams) |->
                        EnhancedTeam(teams[i], enhancer.team_data)]
       IN  /\ drivers' = enhanced_drivers
           /\ teams' = enhanced_teams
           /\ driver_teams' = MatchDriverTeams(enhanced_drivers, enhanced_teams)
           /\ app' = [app EXCEPT !.pc = "simulating",
                                 !.before = [drivers |-> drivers,
                                             teams |-> teams],
                                 !.enrichment_failed = failed,
                                 !.race_results = <<>>]
    /\ grid_positions' = <<>>
    /\ race_results' = <<>>
    /\ race_simulated' = FALSE
    /\ pc' = "idle"
    /\ lap' = 0
    /\ active_drivers' = <<>>
    /\ k' = 0
    /\ driver_status' = <<>>
    /\ driver_times' = <<>>
    /\ fastest_lap' = [driver |-> 0, time |-> Infinity]
    /\ incident_chance' = BigZero
    /\ quali_returned' = <<>>
    /\ returned' = <<>>
    /\ base_results' = <<>>
    /\ result_index' = 0
    /\ error' = "none"
    /\ UNCHANGED <<track, weather, enhancer, probe, replay, tracker, lap_log, calls>>

\* run_race_simulation calls simulate_race after simulate_qualifying.
RaceAfterQualifying ==
    /\ app.pc = "simulating"
    /\ quali_returned # <<>>
    /\ SimulateRaceBegin

\* "Qatar" in track.name or "Losail" in track.name
IsQatar(trk) == trk.name = "Losail International Circuit"

\* The result whose driver's name holds the surname, as the loop of lines
\* 115-121 leaves it: the competitor of the last such result, 0 for None.
FindResult(results, full_name) ==
    LET hits == {i \in 1..Len(results) :
                    drivers[results[i].driver].name = full_name}
    IN  IF hits = {} THEN 0
        ELSE results[CHOOSE i \in hits : \A h \in hits : h <= i].driver

\* The result object of competitor d in results.
ResultOf(results, d) ==
    results[CHOOSE i \in 1..Len(results) : results[i].driver = d]

\* d names a result and its status is "Finished".
FoundFinished(results, d) ==
    d # 0 /\ ResultOf(results, d).status = "Finished"

\* list.insert(i, x)
ListInsert(s, i, x) ==
    LET j == Min2(i, Len(s))
    IN  SubSeq(s, 1, j) \o <<x>> \o SubSeq(s, j + 1, Len(s))

\* One of the three blocks of lines 124-146: the result of d removed,
\* inserted at insert_pos and given the position and the points.
Promote(results, d, insert_pos, position, points) ==
    IF ~FoundFinished(results, d) THEN results
    ELSE ListInsert(SelectList(results, {r \in Range(results) : r.driver # d}),
                    insert_pos,
                    [ResultOf(results, d) EXCEPT
                        !.finishing_position = position, !.points = points])

\* Lines 109-149 of run_race_simulation on the list simulate_race returned.
QatarBias(results) ==
    LET max_verstappen == FindResult(results, "Max Verstappen")
        lando_norris == FindResult(results, "Lando Norris")
        oscar_piastri == FindResult(results, "Oscar Piastri")
        max_finished == FoundFinished(results, max_verstappen)
        lando_finished == FoundFinished(results, lando_norris)
        r1 == Promote(results, max_verstappen, 0, 1, 25)
        r2 == Promote(r1, lando_norris, IF max_finished THEN 1 ELSE 0, 2, 18)
        r3 == Promote(r2, oscar_piastri,
                      IF max_finished /\ lando_finished THEN 2 ELSE 1, 3, 15)
    IN  [i \in 1..Len(r3) |->
            IF i > 3 THEN [r3[i] EXCEPT !.finishing_position = i] ELSE r3[i]]

\* run_race_simulation, lines 108-149, once simulate_race has returned:
\* the returned list is reordered and its result objects, which
\* self.race_results holds too, are changed in place. returned keeps the
\* list as simulate_race returned it; app.race_results is the list shown.
ApplyQatarBias ==
    /\ app.pc = "simulating"
    /\ pc = "done"
    /\ LET shown == IF IsQatar(track) THEN QatarBias(returned) ELSE returned
       IN  /\ app' = [app EXCEPT !.pc = "menu", !.races = @ + 1,
                                 !.race_results = shown]
           /\ race_results' = [i \in 1..Len(race_results) |->
                                ResultOf(shown, race_results[i].driver)]
    /\ UNCHANGED <<track, weather, drivers, teams, enhancer, driver_teams,
                   probe, grid_positions, race_simulated, pc, locals,
                   incident_chance, quali_returned, returned, base_results,
                   result_index, error, replay, tracker, lap_log, calls>>

NextApp ==
    \/ RunRaceSimulationBegin
    \/ SimulateQualifying
    \/ RaceAfterQualifying
    \/ LapDriver
    \/ CompileRace
    \/ AdjustStep
    \/ ApplyQatarBias

SpecApp == InitApp /\ [][NextApp]_vars


\* --------------------------------------------- the pipeline run twice
\* The random module as a seeded source: the first run draws freely and
\* the draws are recorded with what the simulator held after each step;
\* the second run, on a simulator built anew from the same inputs, is
\* served the recorded draws in their order.
ReplayQualifyingDraws ==
    { [qd |-> [d \in Competitors |-> q], ed |-> [d \in Competitors |-> e]]
        : q \in {x \in QualifyingDraws : x.q3 = 990},
          e \in EnhancedQualifyingDraws }

ReplayLapDraws ==
    { d \in { [ld |-> l, id |-> i]
                : l \in LapDraws,
                  i \in {x \in IncidentDraws :
                            x.incident_roll = 650 /\ x.pit_roll = 250} } :
        d.ld.random_variation > 0 \/ d.id.chance_roll = BigPercent(99) }

ReplayAdjustDraws ==
    { ad \in AdjustDraws : /\ ad.position_boost = 1
                           /\ ad.incident_choice = DRIVER_ERROR
                           /\ ad.consistency_roll = ad.overtake_roll
                           /\ ad.mechanical_roll = 100 }

\* What a run shows of the simulator: where it stands, the grids, the
\* results, and the variables of simulate_race while they are alive.
Observed ==
    <<pc, error, grid_positions, quali_returned, race_results, returned,
      IF pc \in {"lap", "compile", "adjust", "done"}
      THEN <<driver_status, driver_times, fastest_lap>>
      ELSE <<>> >>

\* The draws the source can serve a step of the given kind.
NextDraws(kind, S) ==
    IF replay.run = 1 THEN S
    ELSE IF /\ replay.position < Len(replay.tape)
            /\ replay.tape[replay.position + 1].kind = kind
         THEN {replay.tape[replay.position + 1].draw}
         ELSE {}

\* The step of the given kind has consumed the draws d.
Consumed(kind, d) ==
    /\ replay' = IF replay.run = 1
                 THEN [replay EXCEPT !.tape =
                           Append(@, [kind |-> kind, draw |-> d,
                                      after |-> Observed'])]
                 ELSE [replay EXCEPT !.position = @ + 1]
    /\ UNCHANGED <<lap_log, calls>>

\* create_enhanced_simulator as in InitEnhanced, in the wet, and the
\* source at the start of the first run.
InitReplay ==
    /\ track \in {t \in Tracks : t.laps = 1}
    /\ \E r \in Rosters, n \in 1..MaxDrivers :
        /\ drivers = SubSeq(r.drivers, 1, n)
        /\ teams = r.teams
    /\ weather = WetWeather
    /\ grid_positions = <<>>
    /\ enhancer \in {NoEnhancer, PartialEnhancer}
    /\ probe = NoProbe
    /\ app = NoApp
    /\ replay = [run |-> 1, tape |-> <<>>, position |-> 0]
    /\ tracker = NewTracker
    /\ InitRest

ReplayQualifying ==
    /\ pc = "idle"
    /\ ~race_simulated
    /\ quali_returned = <<>>
    /\ \E d \in NextDraws("qualifying", ReplayQualifyingDraws) :
        /\ SimulateQualifyingWith(IF enhancer.present
                                  THEN EnhancedQualifying(d.qd, d.ed)
                                  ELSE BaseQualifying(d.qd))
        /\ Consumed("qualifying", d)

ReplayRaceBegin ==
    /\ quali_returned # <<>>
    /\ \E d \in NextDraws("start", {<<>>}) :
        /\ SimulateRaceBeginWith([raised |-> FALSE, grid |-> grid_positions,
                                  error |-> "none"])
        /\ Consumed("start", d)

ReplayLapDriver ==
    /\ pc = "lap"
    /\ k <= Len(active_drivers)
    /\ \E d \in NextDraws("lap", ReplayLapDraws) :
        /\ LapDriverWith(d.ld, IncidentOutcome(d.id))
        /\ Consumed("lap", d)

ReplayCompileRace ==
    /\ pc = "compile"
    /\ \E d \in NextDraws("compile", {<<>>}) :
        /\ CompileRaceStep
        /\ Consumed("compile", d)

ReplayAdjustStep ==
    /\ pc = "adjust"
    /\ result_index <= Len(race_results)
    /\ \E d \in NextDraws("adjust", ReplayAdjustDraws) :
        /\ AdjustStepWith(AdjustOutcome(d))
        /\ Consumed("adjust", d)

\* The first run is over: a simulator is built anew on the same inputs
\* and the source starts again. The variables of the simulate_race that
\* has returned are dead and hold what it left.
RunAgain ==
    /\ replay.run = 1
    /\ pc = "done"
    /\ replay' = [replay EXCEPT !.run = 2]
    /\ grid_positions' = <<>>
    /\ race_results' = <<>>
    /\ race_simulated' = FALSE
    /\ pc' = "idle"
    /\ incident_chance' = BigZero
    /\ quali_returned' = <<>>
    /\ returned' = <<>>
    /\ base_results' = <<>>
    /\ result_index' = 0
    /\ error' = "none"
    /\ UNCHANGED <<inputs, locals, lap_log, calls>>

NextReplay ==
    \/ ReplayQualifying
    \/ ReplayRaceBegin
    \/ ReplayLapDriver
    \/ ReplayCompileRace
    \/ ReplayAdjustStep
    \/ RunAgain

SpecReplay == InitReplay /\ [][NextReplay]_vars

\* ------------------------------------------------- the laps, followed
\* A race in the wet of competitors who all have their constructor, on a
\* grid supplied or to be qualified, with every lap driven written down.
InitLaps ==
    /\ track \in Tracks
    /\ \E r \in Rosters, n \in 1..MaxDrivers :
        /\ drivers = SubSeq(r.drivers, 1, n)
        /\ teams = r.teams
        /\ grid_positions \in SuppliedGrids(n)
    /\ weather = WetWeather
    /\ enhancer = NoEnhancer
    /\ probe = NoProbe
    /\ app = NoApp
    /\ replay = NoReplay
    /\ tracker = NewTracker
    /\ InitRest

\* The start of simulate_race (lines 334-348); nobody has driven a lap.
FollowedRaceBegin ==
    /\ pc = "idle"
    /\ ~race_simulated
    /\ \E q \in IF grid_positions = <<>>
               THEN QualifyingOutcomes
               ELSE {[raised |-> FALSE, grid |-> grid_positions,
                      error |-> "none"]} :
        /\ SimulateRaceBeginWith(q)
        /\ lap_log' = [d \in Range(q.grid) |-> <<>>]
    /\ UNCHANGED <<replay, calls>>

\* The final_lap_time of line 373 for the competitor whose lap is next.
NextLapTime(ld) ==
    LET driver == active_drivers[k]
    IN  final_lap_time(
            calculate_race_pace(drivers[driver], teams[driver_teams[driver]],
                                track, weather, ld.random_factor),
            lap, track.tyre_wear, driver_status[driver].current_position,
            ld.random_variation)

\* One pass of the inner loop (lines 353-388), written down: the lap, the
\* position the traffic was taken from, the lap time, and what
\* _simulate_incidents returned.
FollowedLapDriver ==
    /\ pc = "lap"
    /\ k <= Len(active_drivers)
    /\ \E ld \in LapDraws, res \in {IncidentOutcome(id) : id \in IncidentDraws} :
        /\ LapDriverWith(ld, res)
        /\ lap_log' = [lap_log EXCEPT ![active_drivers[k]] =
                        Append(@, [lap |-> lap,
                                   position |-> driver_status[active_drivers[k]].current_position,
                                   time |-> NextLapTime(ld),
                                   incident |-> res[1]])]
    /\ UNCHANGED <<replay, calls>>

NextLaps ==
    \/ FollowedRaceBegin
    \/ FollowedLapDriver
    \/ LapEmpty
    \/ CompileRace

SpecLaps == InitLaps /\ [][NextLaps]_vars

\* The two for statements of the lap loop (lines 350 and 353), as they
\* move the loop on: to the next competitor of active_drivers, after the
\* last one (or at once when there is none) to the next lap, after the
\* last lap out of the loop.
LoopControl ==
    /\ pc = "lap"
    /\ IF k < Len(active_drivers)
       THEN k' = k + 1 /\ UNCHANGED <<pc, lap>>
       ELSE IF lap < track.laps
            THEN lap' = lap + 1 /\ k' = 1 /\ UNCHANGED pc
            ELSE pc' = "compile" /\ UNCHANGED <<lap, k>>

\* simulate_race is sequential code that waits for nothing: a loop that
\* can move on does move on.
SpecLapsFair ==
    InitLaps /\ [][NextLaps]_vars /\ WF_<<pc, lap, k>>(LoopControl)

\* ---------------------------------------------------------- get_results
\* A simulator in the wet whose competitors all have their constructor,
\* on a grid supplied or to be qualified; the caller may run
\* simulate_qualifying, simulate_race and get_results.
InitCalls ==
    /\ track \in Tracks
    /\ \E r \in Rosters, n \in 1..MaxDrivers :
        /\ drivers = SubSeq(r.drivers, 1, n)
        /\ teams = r.teams
        /\ grid_positions \in SuppliedGrids(n)
    /\ weather = WetWeather
    /\ enhancer = NoEnhancer
    /\ probe = NoProbe
    /\ app = NoApp
    /\ replay = NoReplay
    /\ tracker = NewTracker
    /\ InitRest

\* get_results with the test of race_simulated left out: the race is run
\* again on the grid there is.
GetResultsAlwaysSimulates ==
    /\ pc \in {"idle", "done"}
    /\ Len(calls) < MaxCalls
    /\ IF ~race_simulated
       THEN /\ \E q \in IF grid_positions = <<>>
                       THEN QualifyingOutcomes
                       ELSE {[raised |-> FALSE, grid |-> grid_positions,
                              error |-> "none"]} :
                    SimulateRaceBeginWith(q)
            /\ calls' = Append(calls, [simulated |-> TRUE, returned |-> <<>>])
       ELSE /\ driver_status' = InitialStatus(grid_positions)
            /\ driver_times' = [d \in Range(grid_positions) |-> 0]
            /\ fastest_lap' = [driver |-> 0, time |-> Infinity]
            /\ lap' = 1
            /\ active_drivers' = grid_positions
            /\ k' = 1
            /\ pc' = "lap"
            /\ calls' = Append(calls, [simulated |-> TRUE, returned |-> <<>>])
            /\ UNCHANGED <<inputs, grid_positions, race_results,
                           race_simulated, incident_chance, quali_returned,
                           returned, base_results, result_index, error>>
    /\ UNCHANGED <<replay, lap_log>>

\* RaceSimulator.get_results (lines 456-460): simulate_race is called
\* when no race has been simulated, and self.race_results is returned.
\* What a call that simulates returns is known when simulate_race ends.
GetResults ==
    /\ pc \in {"idle", "done"}
    /\ Len(calls) < MaxCalls
    /\ IF ~race_simulated
       THEN /\ \E q \in IF grid_positions = <<>>
                       THEN QualifyingOutcomes
                       ELSE {[raised |-> FALSE, grid |-> grid_positions,
                              error |-> "none"]} :
                    SimulateRaceBeginWith(q)
            /\ calls' = Append(calls, [simulated |-> TRUE, returned |-> <<>>])
       ELSE /\ returned' = race_results
            /\ calls' = Append(calls, [simulated |-> FALSE,
                                       returned |-> race_results])
            /\ UNCHANGED <<inputs, locals, grid_positions, race_results,
                           race_simulated, pc, incident_chance,
                           quali_returned, base_results, result_index, error>>
    /\ UNCHANGED <<replay, lap_log>>

NextCalls ==
    \/ SimulateQualifying
    \/ SimulateRaceBegin
    \/ LapDriver
    \/ LapEmpty
    \/ CompileRace
    \/ GetResults

SpecCalls == InitCalls /\ [][NextCalls]_vars

\* ---------------------------------------------- championship tracker
\* utils/championship_tracker.py. The name under which a dict holds an
\* entry; 0 when it holds none.
TrackerIndex(entries, driver_name) ==
    LET hits == {i \in 1..Len(entries) : entries[i].driver = driver_name}
    IN  IF hits = {} THEN 0 ELSE CHOOSE i \in hits : TRUE

\* The body of the loop of add_race_results with the points of the
\* result written over what the driver had.
AddResultLastRaceOnly(tr, result) ==
    LET driver_name == drivers[result.driver].name
        team_name == drivers[result.driver].team
        seen == TrackerIndex(tr.driver_points, driver_name) # 0
        dp == IF seen THEN tr.driver_points
              ELSE Append(tr.driver_points, [driver |-> driver_name, points |-> 0])
        dt == IF seen THEN tr.driver_teams
              ELSE Append(tr.driver_teams, [driver |-> driver_name, team |-> team_name])
        i == TrackerIndex(dp, driver_name)
    IN  [tr EXCEPT !.driver_points = [dp EXCEPT ![i].points = result.points],
                   !.driver_teams = dt]

\* The body of the loop of add_race_results.
AddResult(tr, result) ==
    LET driver_name == drivers[result.driver].name
        team_name == drivers[result.driver].team
        seen == TrackerIndex(tr.driver_points, driver_name) # 0
        dp == IF seen THEN tr.driver_points
              ELSE Append(tr.driver_points, [driver |-> driver_name, points |-> 0])
        dt == IF seen THEN tr.driver_teams
              ELSE Append(tr.driver_teams, [driver |-> driver_name, team |-> team_name])
        i == TrackerIndex(dp, driver_name)
    IN  [tr EXCEPT !.driver_points = [dp EXCEPT ![i].points = @ + result.points],
                   !.driver_teams = dt]

\* The loop of add_race_results over race_results.
RECURSIVE AddResults(_, _)
AddResults(tr, race_results_) ==
    IF race_results_ = <<>> THEN tr
    ELSE AddResults(AddResult(tr, Head(race_results_)), Tail(race_results_))

\* ChampionshipTracker.add_race_results
add_race_results(tr, race_results_) ==
    AddResults([tr EXCEPT !.races_completed = @ + 1], race_results_)

\* ChampionshipTracker.get_standings: (driver, team, points), sorted by
\* points with reverse=True, which keeps the order of equal points.
get_standings(tr) ==
    LET standings ==
            [i \in 1..Len(tr.driver_points) |->
                <<tr.driver_points[i].driver,
                  tr.driver_teams[TrackerIndex(tr.driver_teams,
                                     tr.driver_points[i].driver)].team,
                  tr.driver_points[i].points>>]
    IN  StableSort(standings, LAMBDA a, b : a[3] > b[3])

\* The orders in which n competitors are classified: every competitor, or
\* every competitor but the last of the roster.
RECURSIVE Orders(_)
Orders(S) ==
    IF S = {} THEN {<<>>}
    ELSE UNION {{<<d>> \o o : o \in Orders(S \ {d})} : d \in S}

\* A list of Result Records as the compiler writes their points: the
\* competitors in the order given, the fastest lap with the first or the
\* last of them, the last one retired or not.
ResultList(order, fastest, retired) ==
    [position \in 1..Len(order) |->
        LET st == IF retired /\ position = Len(order) THEN "DNF" ELSE "Finished"
            fl == (position = fastest)
        IN  [driver |-> order[position],
             finishing_position |-> position,
             status |-> st,
             fastest_lap |-> fl,
             points |-> PointsFor(st, position, fl)]]

\* The lists run_race_simulation may give the tracker: such lists, as they
\* are or after the Qatar reordering.
RaceResultLists ==
    LET n == Len(drivers)
        raw == {ResultList(o, f, r) :
                    o \in Orders(1..n) \cup Orders(1..(n - 1)),
                    f \in {1, n}, r \in BOOLEAN}
        kept == {l \in raw : \A i \in 1..Len(l) : ~(l[i].fastest_lap /\ l[i].status = "DNF")}
    IN  kept \cup {QatarBias(l) : l \in kept}

\* A tracker as app.py creates it, for a season of the first competitors
\* of the roster.
InitChampionship ==
    /\ track \in {t \in AppTracks : IsQatar(t)}
    /\ weather = DryWeather
    /\ \E n \in 1..MaxDrivers : drivers = SubSeq(DRIVERS, 1, n)
    /\ teams = TEAMS
    /\ grid_positions = <<>>
    /\ enhancer = NoEnhancer
    /\ probe = NoProbe
    /\ app = NoApp
    /\ replay = NoReplay
    /\ tracker = NewTracker
    /\ InitRest

\* championship_tracker.add_race_results(race_results), line 157 of app.py.
AddRaceResults ==
    /\ tracker.races_completed < MaxRaces
    /\ \E l \in RaceResultLists :
        tracker' = [add_race_results(tracker, l) EXCEPT !.added = Append(@, l)]
    /\ UNCHANGED <<track, weather, drivers, teams, enhancer, driver_teams,
                   probe, app, replay, lap_log, calls, grid_positions,
                   race_results,
                   race_simulated, pc, locals, incident_chance, quali_returned,
                   returned, base_results, result_index, error>>

NextChampionship == AddRaceResults

SpecChampionship == InitChampionship /\ [][NextChampionship]_vars

\* ================================================================ claims
AllMatched == \A d \in Competitors : d \in DOMAIN driver_teams
Finishers(results) == {r \in Range(results) : r.status = "Finished"}
NonFinishers(results) == {r \in Range(results) : r.status # "Finished"}
BaseRaceDone == pc = "done" /\ ~enhancer.present

\* C1: when every competitor's team matches a constructor, the grid that
\* simulate_qualifying returns (base or enhanced, with or without external
\* statistics) is stored and is a permutation of the competitors: each one
\* appears exactly once.
C1_GridIsPermutation ==
    (AllMatched /\ quali_returned # <<>>) =>
        /\ grid_positions = quali_returned
        /\ Len(quali_returned) = Len(drivers)
        /\ Range(quali_returned) = Competitors

\* Qualifying with external statistics has moved the first competitor off
\* the pole.
C1_Witness ==
    /\ AllMatched
    /\ enhancer.present
    /\ enhancer.driver_data # <<>>
    /\ Len(quali_returned) = Len(drivers)
    /\ Len(drivers) >= 2
    /\ quali_returned[1] # 1

\* C2: in the list simulate_race returns, a Finished competitor with a
\* smaller race time has a smaller final position than a Finished one with
\* a larger time, and every Finished competitor is ahead of every DNF or
\* DSQ one.
C2_FinishedOrdered ==
    BaseRaceDone =>
        /\ \A a, b \in Finishers(returned) :
              a.time < b.time => a.finishing_position < b.finishing_position
        /\ \A a \in Finishers(returned), b \in NonFinishers(returned) :
              a.finishing_position < b.finishing_position

\* Two competitors finished, and the one that started behind won on time.
C2_Witness ==
    /\ BaseRaceDone
    /\ \E a, b \in Finishers(returned) :
          /\ a.time < b.time
          /\ a.starting_position > b.starting_position

C4_ChanceCapped == BigLeq(incident_chance, <<0, 0, 0, 15>>)

\* The cap has acted: the chance compared is 0.15 and some competitor's
\* uncapped chance on some lap is above it.
C4_Witness ==
    /\ pc = "lap"
    /\ incident_chance = <<0, 0, 0, 15>>
    /\ \E d \in DOMAIN driver_teams, l \in 1..track.laps :
          /\ drivers[d].consistency = 0
          /\ teams[driver_teams[d]].reliability = 0
          /\ BigLess(<<0, 0, 0, 15>>,
                     IncidentChanceUncapped(drivers[d], teams[driver_teams[d]],
                                            weather, l, track.laps))

\* C5: once a competitor has retired, the rest of simulate_race leaves its
\* cumulative time, incident kind and incident description as they are,
\* never makes it active again, and the inner loop never takes it up for
\* another lap time or incident check.
C5_RetirementTerminal ==
    [][/\ \A d \in DOMAIN driver_status :
             ~driver_status[d].active =>
                 /\ d \in DOMAIN driver_status'
                 /\ ~driver_status'[d].active
                 /\ driver_status'[d].incident = driver_status[d].incident
                 /\ driver_status'[d].description = driver_status[d].description
                 /\ driver_times'[d] = driver_times[d]
       /\ (pc = "lap" /\ k <= Len(active_drivers)) =>
             driver_status[active_drivers[k]].active]_vars

\* A later lap is under way with one competitor retired and another still
\* to be taken up.
C5_Witness ==
    /\ pc = "lap"
    /\ lap >= 2
    /\ k <= Len(active_drivers)
    /\ \E d \in DOMAIN driver_status :
          /\ ~driver_status[d].active
          /\ driver_times[d] > 0

\* C6: a competitor active at the end of the race is recorded Finished, one
\* retired with incident PENALTY is recorded DSQ, one retired with any other
\* incident is recorded DNF; no record has any other status.
C6_StatusResolution ==
    BaseRaceDone =>
        \A r \in Range(returned) :
            LET st == driver_status[r.driver]
            IN  /\ st.active => r.status = "Finished"
                /\ (~st.active /\ st.incident = PENALTY) => r.status = "DSQ"
                /\ (~st.active /\ st.incident # PENALTY) => r.status = "DNF"
                /\ r.status \in {"Finished", "DSQ", "DNF"}

\* One race has a disqualified competitor and one that retired otherwise.
C6_Witness ==
    /\ BaseRaceDone
    /\ \E a, b \in Range(returned) :
          /\ a.status = "DSQ" /\ ~driver_status[a.driver].active
          /\ b.status = "DNF" /\ ~driver_status[b.driver].active

\* C7: among the competitors that did not finish, one with a larger
\* cumulative time at retirement has a smaller final position than one with
\* a smaller time.
C7_NonFinishersByDistance ==
    BaseRaceDone =>
        \A a, b \in NonFinishers(returned) :
            a.time > b.time => a.finishing_position < b.finishing_position

\* Two competitors retired on different laps, and the one that went further
\* started behind the other.
C7_Witness ==
    /\ BaseRaceDone
    /\ \E a, b \in NonFinishers(returned) :
          /\ a.time > b.time
          /\ a.starting_position > b.starting_position
          /\ a.finishing_position < b.finishing_position

\* C8: a competitor whose team matches no constructor is a fatal setup
\* error: no grid and no race results are ever produced while such a
\* competitor exists, whether the grid is generated or supplied.
C8_UnmatchedTeamIsFatal ==
    ~AllMatched => (quali_returned = <<>> /\ ~race_simulated /\ returned = <<>>)

\* C9: the results the enhanced simulate_race returns after its adjustments
\* still have the Finished competitors first, their positions increasing
\* with race time, the competitors that did not finish after them,
\* points only on Finished records at positions 1 to 10, and there the
\* table's points plus the fastest-lap bonus.
C9_AdjustedResultsKeepInvariants ==
    (pc = "done" /\ enhancer.present) =>
        /\ \A a, b \in Finishers(returned) :
              a.time < b.time => a.finishing_position < b.finishing_position
        /\ \A a \in Finishers(returned), b \in NonFinishers(returned) :
              a.finishing_position < b.finishing_position
        /\ \A r \in Range(returned) :
              LET table == <<25, 18, 15, 12, 10, 8, 6, 4, 2, 1>>
                  scoring == r.status = "Finished" /\ r.finishing_position \in 1..10
              IN  /\ r.points # 0 => scoring
                  /\ scoring => r.points = table[r.finishing_position]
                                  + (IF r.fastest_lap THEN 1 ELSE 0)

\* C10: without an enhancer, or with one whose statistics are empty, the
\* result the enhanced simulate_race returns is the base engine's result.
C10_OverlayPassThrough ==
    (pc = "done" /\ (~enhancer.present
                     \/ (enhancer.driver_data = <<>> /\ enhancer.team_data = <<>>))) =>
        returned = base_results

Enriched ==
    /\ app.pc \in {"simulating", "menu"}
    /\ app.pc = "simulating" \/ app.races > 0
    /\ ~app.enrichment_failed

UnmatchedDrivers ==
    {i \in 1..Len(drivers) :
        DriverDataIndex(enhancer.driver_data,
                        get_driver_abbreviation(drivers[i].name)) = 0}

UnmatchedTeams ==
    {i \in 1..Len(teams) :
        MatchingTeam(enhancer.team_data, clean_team_name(teams[i].name)) = 0}

\* C16: enhance_race_prediction gives back as many competitors and
\* constructors as it was given, in the same order, and every competitor
\* and constructor without matching statistics has every attribute as it
\* was before the call.
C16_UnmatchedUnchanged ==
    Enriched =>
        /\ Len(drivers) = Len(app.before.drivers)
        /\ Len(teams) = Len(app.before.teams)
        /\ \A i \in 1..Len(drivers) : drivers[i].name = app.before.drivers[i].name
        /\ \A i \in 1..Len(teams) : teams[i].name = app.before.teams[i].name
        /\ \A i \in UnmatchedDrivers : drivers[i] = app.before.drivers[i]
        /\ \A i \in UnmatchedTeams : teams[i] = app.before.teams[i]

\* The statistics cover one of two competitors and one of the
\* constructors; the covered ones were changed by the call.
C16_Witness ==
    /\ Enriched
    /\ app.pc = "simulating"
    /\ UnmatchedDrivers # {}
    /\ UnmatchedTeams # {}
    /\ \E i \in 1..Len(drivers) :
        i \notin UnmatchedDrivers /\ drivers[i] # app.before.drivers[i]
    /\ \E i \in 1..Len(teams) :
        i \notin UnmatchedTeams /\ teams[i] # app.before.teams[i]

\* The five blended attributes of a competitor.
BlendedAttributes(d) ==
    <<d.skill_dry, d.skill_wet, d.skill_overtaking, d.consistency, d.aggression>>

\* The competitor o with the ratings real_data blended in.
BlendOf(o, real_data) ==
    [o EXCEPT !.skill_dry = Blend(real_data.skill_dry, @),
              !.skill_wet = Blend(real_data.skill_wet, @),
              !.skill_overtaking = Blend(real_data.skill_overtaking, @),
              !.consistency = Blend(real_data.consistency, @),
              !.aggression = Blend(real_data.aggression, @)]

\* C17: after the enrichment, in whichever race of the session, every
\* competitor with matching statistics has dry skill, wet skill,
\* overtaking, consistency and aggression equal to the rounded value of
\* 0.7 x external + 0.3 x the value the data module defines (its
\* original value), each within 1..100, and its experience and every
\* other attribute as defined.
C17_BlendOfOriginal ==
    Enriched =>
        \A i \in (1..Len(drivers)) \ UnmatchedDrivers :
            LET real_data ==
                    enhancer.driver_data[
                        DriverDataIndex(enhancer.driver_data,
                            get_driver_abbreviation(drivers[i].name))]
            IN  /\ drivers[i] = BlendOf(app.original.drivers[i], real_data)
                /\ \A j \in 1..5 : BlendedAttributes(drivers[i])[j] \in 1..100

\* C15: when the enrichment of run_race_simulation has failed, the
\* failure is absorbed: no exception ends the run, and the simulator works
\* on the attributes as they were before the enrichment was attempted.
C15_EnrichmentFailureAbsorbed ==
    (app.pc = "simulating" /\ app.enrichment_failed) =>
        /\ pc # "failed"
        /\ drivers = app.before.drivers
        /\ teams = app.before.teams

\* The status and points invariants of a list of results: the final
\* positions are 1..N in list order, every Finished competitor is ahead of
\* every other, and the points are the table's value for the final
\* position plus the fastest-lap bonus, none beyond position 10 or for a
\* competitor that did not finish.
ResultInvariants(results) ==
    /\ \A i \in 1..Len(results) : results[i].finishing_position = i
    /\ \A a \in Finishers(results), b \in NonFinishers(results) :
            a.finishing_position < b.finishing_position
    /\ \A i \in 1..Len(results) :
            results[i].points = PointsFor(results[i].status,
                                          results[i].finishing_position,
                                          results[i].fastest_lap)

\* C11: the reordering run_race_simulation applies for a race in Qatar
\* preserves the status and points invariants: when the list simulate_race
\* returned satisfies them, so does the list shown.
C11_QatarBiasKeepsInvariants ==
    (/\ app.pc = "menu"
     /\ app.races > 0
     /\ IsQatar(track)
     /\ ResultInvariants(returned))
        => ResultInvariants(app.race_results)

C18_WeatherRelatedOnlyWhenWet ==
    \A d \in DOMAIN driver_status :
        driver_status[d].incident = WEATHER_RELATED =>
            \/ weather.condition = "wet"
            \/ (weather.condition = "mixed" /\ weather.rain_intensity > 3)

\* On a damp track (mixed, rain intensity 2) a competitor has retired on
\* the branch the ladder takes past the weather case.
C18_Witness ==
    /\ weather.condition = "mixed"
    /\ weather.rain_intensity <= 3
    /\ \E d \in DOMAIN driver_status :
          /\ ~driver_status[d].active
          /\ driver_status[d].incident \in {PIT_ERROR, PENALTY}

\* C19 (as stated): on every lap and in every weather, the incident chance
\* of consistency 0 with reliability 0 is at the 0.15 cap or within a third
\* of it (at least 0.10), and strictly above that of consistency 100 with
\* reliability 100.
C19_ExtremeNearCap ==
    (probe.fn = "_simulate_incidents" /\ probe.done) =>
        /\ BigLeq(BigPercent(10), probe.worst)
        /\ BigLess(probe.best, probe.worst)

\* C19 (amended): on every lap and in every weather, the incident chance of
\* consistency 0 with reliability 0 is strictly above that of consistency
\* 100 with reliability 100, and at least five times as high; it is never
\* below 0.004.
C19_ExtremeMateriallyHigher ==
    (probe.fn = "_simulate_incidents" /\ probe.done) =>
        /\ BigLess(probe.best, probe.worst)
        /\ BigLeq(BigMul(probe.best, 5), probe.worst)
        /\ BigLeq(<<0, 0, 4000, 0>>, probe.worst)

\* A dry lap in mid-race for a calm, experienced competitor: the chance of
\* the entry with consistency 0 and reliability 0 is 0.004, far below the
\* cap.
C19_Witness ==
    /\ probe.fn = "_simulate_incidents"
    /\ probe.done
    /\ probe.weather.condition = "dry"
    /\ probe.lap >= 3
    /\ 10 * probe.lap <= 8 * probe.total_laps
    /\ BigLess(probe.worst, BigPercent(1))
    /\ BigLess(probe.best, probe.worst)

\* C20: the lap time simulate_race adds to a competitor's cumulative time
\* is strictly positive on every lap up to the circuit's lap count, for
\* every tyre-wear rating, running position and jitter.
C20_LapTimePositive ==
    (probe.fn = "final_lap_time" /\ probe.done) =>
        /\ probe.lap_time > 0
        /\ probe.final_lap_time > 0

\* The points of the records at positions 1 to 10 with the fastest-lap
\* bonus left out (table), and the points of all the records (all).
PointsSums(results) ==
    LET bonus(r) == IF r.fastest_lap /\ r.status = "Finished"
                       /\ r.finishing_position <= 10
                    THEN 1 ELSE 0
        SumTo[i \in 0..Len(results)] ==
            IF i = 0 THEN [table |-> 0, all |-> 0]
            ELSE [table |-> SumTo[i - 1].table
                            + (IF results[i].finishing_position <= 10
                               THEN results[i].points - bonus(results[i])
                               ELSE 0),
                  all |-> SumTo[i - 1].all + results[i].points]
    IN  SumTo[Len(results)]

\* C12 (as stated): whenever at least 10 competitors finish, the points of
\* the records at positions 1 to 10, the fastest-lap bonus left out, sum to
\* 111, and the points of all the records sum to 111 or 112.
C12_PointsSum111 ==
    (BaseRaceDone /\ Cardinality(Finishers(returned)) >= 10) =>
        /\ PointsSums(returned).table = 111
        /\ PointsSums(returned).all \in {111, 112}

\* C12 (amended): whenever at least 10 competitors finish, the points of
\* the records at positions 1 to 10, the fastest-lap bonus left out, sum to
\* 101, and the points of all the records sum to 101 or 102.
C12_PointsSum101 ==
    (BaseRaceDone /\ Cardinality(Finishers(returned)) >= 10) =>
        /\ PointsSums(returned).table = 101
        /\ PointsSums(returned).all \in {101, 102}

\* Eleven started, ten finished, and the competitor that retired set the
\* fastest lap: nobody holds the bonus.
C12_Witness ==
    /\ BaseRaceDone
    /\ Len(returned) = 11
    /\ Cardinality(Finishers(returned)) = 10
    /\ \E r \in NonFinishers(returned) : r.fastest_lap
    /\ returned[10].points = 1

\* The points of the results of the driver named in the lists given.
RECURSIVE PointsIn(_, _)
PointsIn(driver_name, results) ==
    IF results = <<>> THEN 0
    ELSE (IF drivers[Head(results).driver].name = driver_name
          THEN Head(results).points ELSE 0)
         + PointsIn(driver_name, Tail(results))

RECURSIVE PointsInAll(_, _)
PointsInAll(driver_name, lists) ==
    IF lists = <<>> THEN 0
    ELSE PointsIn(driver_name, Head(lists)) + PointsInAll(driver_name, Tail(lists))

\* C21: after any sequence of add_race_results calls, races_completed is
\* the number of calls, each driver's points are the sum of the points of
\* its results in all the lists added, and get_standings lists every
\* driver seen exactly once, with its team, in non-increasing order of
\* points.
C21_ChampionshipTotals ==
    LET standings == get_standings(tracker)
        seen == UNION {{drivers[l[i].driver].name : i \in 1..Len(l)} :
                        l \in Range(tracker.added)}
    IN  /\ tracker.races_completed = Len(tracker.added)
        /\ {e.driver : e \in Range(tracker.driver_points)} = seen
        /\ Len(tracker.driver_points) = Cardinality(seen)
        /\ \A e \in Range(tracker.driver_points) :
                e.points = PointsInAll(e.driver, tracker.added)
        /\ Len(standings) = Cardinality(seen)
        /\ {row[1] : row \in Range(standings)} = seen
        /\ \A row \in Range(standings) :
                /\ row[3] = PointsInAll(row[1], tracker.added)
                /\ \E d \in 1..Len(drivers) :
                        drivers[d].name = row[1] /\ drivers[d].team = row[2]
        /\ \A i \in 1..Len(standings), j \in 1..Len(standings) :
                i < j => standings[i][3] >= standings[j][3]

\* Two races are added; a driver takes part in the second only and leads
\* the standings, ahead of the driver entered first.
C21_Witness ==
    /\ tracker.races_completed = 2
    /\ Len(tracker.added[1]) < Len(tracker.added[2])
    /\ Len(tracker.driver_points) = 2
    /\ get_standings(tracker)[1][1] = tracker.driver_points[2].driver
    /\ get_standings(tracker)[2][3] > 0

\* The lap loop has begun and its laps are written down.
LapsFollowed == pc \in {"lap", "compile", "done"} /\ lap_log # <<>>

RECURSIVE SumTimes(_)
SumTimes(entries) ==
    IF entries = <<>> THEN 0
    ELSE Head(entries).time + SumTimes(Tail(entries))

\* Every lap time driven so far, by anyone.
LapTimesDriven ==
    UNION {{lap_log[d][i].time : i \in 1..Len(lap_log[d])} : d \in DOMAIN lap_log}

\* C22: a lap's time is added to the cumulative time and compared with
\* the fastest lap before the incident check: a competitor that retired on
\* lap L has driven laps 1..L and its time is the sum of those L lap
\* times, and the fastest lap is the least lap time driven by anyone,
\* retirees' last laps included.
C22_RetirementLapCounts ==
    LapsFollowed =>
        /\ \A d \in DOMAIN lap_log :
            /\ driver_times[d] = SumTimes(lap_log[d])
            /\ \A i \in 1..Len(lap_log[d]) :
                /\ lap_log[d][i].lap = i
                /\ (lap_log[d][i].incident # NONE) =
                        (i = Len(lap_log[d]) /\ ~driver_status[d].active)
            /\ ~driver_status[d].active => Len(lap_log[d]) >= 1
        /\ IF LapTimesDriven = {}
           THEN fastest_lap = [driver |-> 0, time |-> Infinity]
           ELSE /\ \A t \in LapTimesDriven : fastest_lap.time <= t
                /\ fastest_lap.driver \in DOMAIN lap_log
                /\ \E i \in 1..Len(lap_log[fastest_lap.driver]) :
                        lap_log[fastest_lap.driver][i].time = fastest_lap.time

\* A competitor retires on its second lap, which is the fastest lap of
\* the race, and another competitor finishes.
C22_Witness ==
    /\ pc = "done"
    /\ \E d \in DOMAIN lap_log :
        /\ ~driver_status[d].active
        /\ Len(lap_log[d]) = 2
        /\ fastest_lap.driver = d
        /\ lap_log[d][2].time = fastest_lap.time
        /\ lap_log[d][1].time > fastest_lap.time
        /\ \E e \in DOMAIN lap_log : driver_status[e].active

\* The race time of competitor d after its first n laps.
TimeAfter(d, n) == SumTimes(SubSeq(lap_log[d], 1, n))

\* The competitors still active at the end of lap n.
ActiveAfter(n) ==
    {e \in DOMAIN lap_log : Len(lap_log[e]) >= n /\ lap_log[e][n].incident = NONE}

\* The place of d among the competitors active at the end of lap n, by
\* race time, and by grid order at equal times.
RankAfter(d, n) ==
    1 + Cardinality({e \in ActiveAfter(n) :
            \/ TimeAfter(e, n) < TimeAfter(d, n)
            \/ /\ TimeAfter(e, n) = TimeAfter(d, n)
               /\ IndexOf(grid_positions, e) < IndexOf(grid_positions, d)})

\* No competitor has driven in the running lap yet, or the loop is over.
BetweenLaps == (pc = "lap" /\ k = 1 /\ lap >= 2) \/ pc \in {"compile", "done"}

\* C23: at the end of every lap the positions of the competitors still
\* active are exactly 1..k in ascending order of race time; the traffic of
\* a lap is taken from the position at the end of the lap before, and on
\* the first lap from the grid.
C23_RunningPositions ==
    LapsFollowed =>
        /\ \A d \in DOMAIN lap_log : \A i \in 1..Len(lap_log[d]) :
                lap_log[d][i].position =
                    IF i = 1 THEN IndexOf(grid_positions, d)
                    ELSE RankAfter(d, i - 1)
        /\ (BetweenLaps /\ track.laps >= 1) =>
            LET active == {d \in DOMAIN driver_status : driver_status[d].active}
            IN  /\ {driver_status[d].current_position : d \in active}
                        = 1..Cardinality(active)
                /\ \A d \in active, e \in active :
                        driver_status[d].current_position
                            < driver_status[e].current_position
                        => driver_times[d] <= driver_times[e]

\* The competitor second on the grid drives its second lap from first
\* place, ahead of a competitor still racing.
C23_Witness ==
    /\ LapsFollowed
    /\ \E d \in DOMAIN lap_log :
        /\ Len(lap_log[d]) >= 2
        /\ lap_log[d][1].position = 2
        /\ lap_log[d][2].position = 1
        /\ \E e \in DOMAIN lap_log :
            /\ e # d
            /\ Len(lap_log[e]) >= 2

\* The traffic factor has been computed for a position.
TrafficProbed == probe.fn = "traffic_factor" /\ probe.done

\* The penalty is zero up to fifth place and grows with every place
\* behind it.
TrafficFreeThenGrowing ==
    TrafficProbed =>
        /\ probe.position <= TrafficFreePositions => probe.traffic_factor = 0
        /\ probe.position > TrafficFreePositions =>
                probe.traffic_factor > 0 /\ probe.traffic_factor > probe.ahead

\* C24: the traffic penalty is zero for positions 1 to 5, grows with the
\* position beyond fifth, and is capped: far enough back it has reached
\* an upper bound and a place further back adds nothing to it.
C24_TrafficCapped ==
    /\ TrafficFreeThenGrowing
    /\ (TrafficProbed /\ probe.position = MaxPosition) =>
            probe.traffic_factor = probe.ahead

\* Where the loop stands, every competitor of the running lap's
\* active_drivers has driven every lap before it, and the running lap
\* too if its turn has passed; after the loop, the competitors still
\* active have driven track.laps laps and nobody has driven more.
LapsDrivenOnce ==
    /\ \A d \in DOMAIN lap_log :
        /\ Len(lap_log[d]) <= track.laps
        /\ \A i \in 1..Len(lap_log[d]) : lap_log[d][i].lap = i
    /\ pc = "lap" =>
        /\ lap \in 1..track.laps
        /\ k <= Len(active_drivers) \/ active_drivers = <<>>
        /\ \A i \in 1..Len(active_drivers) :
                Len(lap_log[active_drivers[i]]) = IF i < k THEN lap ELSE lap - 1
        /\ \A d \in DOMAIN lap_log :
                (\A i \in 1..Len(active_drivers) : active_drivers[i] # d)
                    => Len(lap_log[d]) < lap /\ ~driver_status[d].active
    /\ pc \in {"compile", "done"} =>
        /\ lap = Max2(track.laps, 1)
        /\ \A d \in DOMAIN lap_log :
                driver_status[d].active => Len(lap_log[d]) = track.laps

\* The compilation leaves what the loop has set as it is.
CompilationKeepsLoopState ==
    [][pc = "compile" =>
            UNCHANGED <<driver_status, driver_times, fastest_lap, lap,
                        lap_log>>]_vars

\* C25: the lap loop ends after exactly track.laps iterations, also when
\* every competitor has retired before; in each iteration every
\* competitor active at its start is updated exactly once; and the
\* compilation after the loop changes no competitor's state.
C25_LoopTerminates ==
    /\ [](LapsFollowed => LapsDrivenOnce)
    /\ CompilationKeepsLoopState
    /\ (pc = "lap") ~> (pc = "compile")

\* The loop of a race of two laps is over and every competitor retired
\* on the first lap: the second iteration had nobody to update.
C25_Witness ==
    /\ pc = "compile"
    /\ track.laps = 2
    /\ Len(grid_positions) = 2
    /\ \A d \in DOMAIN lap_log : Len(lap_log[d]) = 1 /\ ~driver_status[d].active

\* The composition of the incident chance has been computed.
FactorsProbed == probe.fn = "incident_factors" /\ probe.done

\* C26: the first-lap multiplier (8) is applied exactly on laps 1 and 2,
\* the late-race multiplier (2) exactly on laps beyond 80% of the lap
\* count, the rookie multiplier (1.5) exactly when experience is below 2;
\* the chance is strictly larger in the wet than on a mixed track and on
\* a mixed track than in the dry; and with all else equal the uncapped
\* chance does not rise with consistency or reliability and does not fall
\* with aggression.
C26_IncidentFactors ==
    FactorsProbed =>
        /\ probe.chance =
                BigMul(BigMul(probe.mid_race,
                              IF probe.lap \in {1, 2} THEN 8 ELSE 1),
                       IF 5 * probe.lap > 4 * probe.total_laps THEN 2 ELSE 1)
        /\ BigMul(probe.chance, 10) =
                BigMul(probe.veteran, IF probe.experience < 2 THEN 15 ELSE 10)
        /\ BigLess(probe.mixed, probe.wet)
        /\ BigLess(probe.dry, probe.mixed)
        /\ BigLeq(probe.more_consistent, probe.chance)
        /\ BigLeq(probe.more_reliable, probe.chance)
        /\ BigLeq(probe.chance, probe.more_aggressive)

\* A rookie on lap 2 of a race of two laps: the first-lap, late-race and
\* rookie multipliers all apply, and the uncapped chance is above the cap.
C26_Witness ==
    /\ FactorsProbed
    /\ probe.lap = 2
    /\ probe.total_laps = 2
    /\ probe.experience = 1
    /\ probe.chance = BigMul(probe.mid_race, 16)
    /\ BigLess(IncidentCap, probe.chance)

\* C27: RaceSimulator.simulate_race returns exactly one record per
\* competitor of the grid; the k-th record has final position k, so the
\* final positions are 1..N without gap or duplicate; and a record's
\* starting position is the competitor's place in the grid, counted
\* from 1.
C27_OneRecordPerCompetitor ==
    BaseRaceDone =>
        /\ Len(returned) = Len(grid_positions)
        /\ \A d \in Range(grid_positions) :
                Cardinality({i \in 1..Len(returned) : returned[i].driver = d}) = 1
        /\ \A i \in 1..Len(returned) :
                /\ returned[i].finishing_position = i
                /\ returned[i].driver \in Range(grid_positions)
                /\ grid_positions[returned[i].starting_position]
                        = returned[i].driver

\* A race of two on a supplied grid: a competitor has retired and the
\* other one wins from second place on the grid.
C27_Witness ==
    /\ BaseRaceDone
    /\ Len(grid_positions) = 2
    /\ quali_returned = <<>>
    /\ returned[2].status # "Finished"
    /\ returned[1].starting_position = 2

\* EnhancedRaceSimulator.simulate_race has returned the adjusted results.
EnhancedRaceDone == pc = "done" /\ enhancer.present

\* C28: EnhancedRaceSimulator.simulate_race returns a record for exactly
\* the competitors of the base result it was given, whatever their
\* statuses (Finished, DNF, DSQ): the re-sort drops and duplicates no
\* record, and the final positions are again 1..N.
C28_ResortKeepsEveryRecord ==
    EnhancedRaceDone =>
        /\ Len(returned) = Len(base_results)
        /\ \A i \in 1..Len(base_results) :
                Cardinality({j \in 1..Len(returned) :
                                returned[j].driver = base_results[i].driver}) = 1
        /\ \A j \in 1..Len(returned) : returned[j].finishing_position = j

\* In every record of the list: Finished exactly when the incident is
\* NONE, then with an empty description; no points with an incident.
StatusMatchesIncident(results) ==
    \A i \in 1..Len(results) :
        /\ (results[i].status = "Finished") = (results[i].incident = NONE)
        /\ results[i].incident = NONE => results[i].incident_description = <<>>
        /\ results[i].incident # NONE => results[i].points = 0

\* What RaceSimulator.simulate_race returns has the property.
BaseStatusMatchesIncident ==
    (pc \in {"adjust", "done"}) => StatusMatchesIncident(base_results)

\* C29: in every record returned by RaceSimulator.simulate_race and by
\* EnhancedRaceSimulator.simulate_race the status is Finished exactly when
\* the incident is NONE (the description then being empty), and a record
\* with an incident is never Finished and holds no points.
C29_FinishedIffNoIncident ==
    pc = "done" => StatusMatchesIncident(returned)

\* simulate_race begins: from the caller or from get_results.
RaceBegins == pc = "idle" /\ pc' \in {"lap", "compile"}

\* Qualifying is run by simulate_race exactly when there is no grid; a
\* grid there is stays as it is; and the race starts in grid order.
QualifiesIffNoGrid ==
    [][RaceBegins =>
        /\ IF grid_positions = <<>>
           THEN /\ Range(grid_positions') = Competitors
                /\ Len(grid_positions') = Len(drivers)
                /\ quali_returned' = grid_positions'
           ELSE UNCHANGED <<grid_positions, quali_returned>>
        /\ \A i \in 1..Len(grid_positions') :
                driver_status'[grid_positions'[i]].current_position = i]_vars

\* A call of get_results on a simulated race runs nothing: it returns
\* self.race_results and leaves the race as it is.
StoredResultsReturned ==
    [][(race_simulated /\ Len(calls') > Len(calls)) =>
        /\ returned' = race_results
        /\ UNCHANGED <<race_results, race_simulated, grid_positions, pc,
                       driver_status, driver_times, fastest_lap,
                       base_results>>]_vars

\* Only a first call of get_results, on a race not yet simulated, runs
\* the race; every other call returns the records the race has compiled.
CallsReturnTheSame ==
    /\ \A i \in 1..Len(calls) : calls[i].simulated => i = 1
    /\ \A i \in 1..Len(calls) :
            ~calls[i].simulated =>
                /\ race_simulated
                /\ calls[i].returned = base_results
                /\ calls[i].returned = race_results
    /\ (calls # <<>> /\ pc = "done") => returned = base_results

\* C30: simulate_race runs qualifying first exactly when no grid exists
\* (none supplied, none generated before) and otherwise starts from the
\* grid there is, unchanged; get_results runs the race only when none has
\* been simulated, and repeated calls return the same stored records
\* without running or changing the race.
C30_QualifyAndSimulateOnce ==
    /\ QualifiesIffNoGrid
    /\ StoredResultsReturned
    /\ []CallsReturnTheSame

\* On a supplied grid of two, get_results is called twice: the first call
\* runs the race, in which a competitor retires, and the second returns
\* the same two records.
C30_Witness ==
    /\ pc = "done"
    /\ Len(calls) = 2
    /\ calls[1].simulated
    /\ ~calls[2].simulated
    /\ quali_returned = <<>>
    /\ Len(calls[2].returned) = 2
    /\ calls[2].returned[2].status # "Finished"

====
